---- MODULE Spec2Model ----
(***************************************************************************)
(* A model of Ollama-Markov's incremental training and storage pipeline:   *)
(* the in-memory MarkovModel, the SQLite-backed Database (transitions      *)
(* ledger, compacted states, messages, message_processing cursor), the     *)
(* synchronous request path of Generator and the BackgroundWorker.         *)
(*                                                                         *)
(* Representation.  A token is a string.  A state text is the sequence of  *)
(* its tokens: the code joins them with one space and tokens never hold a  *)
(* space (TextProcessor.word_pattern), so the join is injective.  A text   *)
(* is a record [toks, sp]: the tokens the tokenizer finds in it and a tag  *)
(* sp that tells apart texts which differ only in spacing and so tokenize  *)
(* to the same tokens.  A probability count/total is kept as the pair      *)
(* <<count, total>> and compared by cross-multiplication.                  *)
(***************************************************************************)
EXTENDS Integers, Sequences, FiniteSets, TLC

START == "<START>"
END == "<END>"

\* ------------------------------------------------------------------ bounds
MaxCycles == 3      \* requests served by the synchronous path
MaxOps == 4         \* store calls started per connection
MaxMsgs == 2        \* messages stored in the messages table
BatchSize == 1      \* the worker's --batch-size (LIMIT of a batch query)
MaxRestarts == 1    \* worker instances started after the first
RandomGrain == 3    \* the random source returns u / RandomGrain, u in 0..RandomGrain-1
MaxTokens == 2      \* max_tokens of a generate call
MaxWeight == 2      \* the largest weight of a token in a sampled distribution

\* ------------------------------------------------------- program constants
MinMessageLength == 3
SyncOrder == 2

\* ---------------------------------------------------------------- generic
EmptyMap == [x \in {} |-> 0]

Range(s) == {s[i] : i \in 1..Len(s)}

RECURSIVE SumSeq(_)
SumSeq(s) == IF s = <<>> THEN 0 ELSE Head(s) + SumSeq(Tail(s))

RECURSIVE SumMap(_)
SumMap(f) ==
    IF DOMAIN f = {} THEN 0
    ELSE LET x == CHOOSE y \in DOMAIN f : TRUE
         IN f[x] + SumMap([y \in DOMAIN f \ {x} |-> f[y]])

\* A sequence holding each element of S once (the order SQLite's index or a
\* dict's iteration gives; every use is independent of the order chosen).
RECURSIVE SeqOf(_)
SeqOf(S) ==
    IF S = {} THEN <<>>
    ELSE LET x == CHOOSE y \in S : TRUE IN <<x>> \o SeqOf(S \ {x})

Repeat(x, n) == [i \in 1..n |-> x]

\* ------------------------------------------------------------- MarkovModel
\* full_sequence of train: (order-1) START, the tokens, one END.
FullSequence(tokens, order) == Repeat(START, order - 1) \o tokens \o <<END>>

\* range(len(full_sequence) - self.order): the number of loop iterations.
TrainSteps(full, order) == Len(full) - order

\* transitions[state][next_token] += 1 on a defaultdict of defaultdict(int).
Incr(trans, state, next) ==
    LET row == IF state \in DOMAIN trans THEN trans[state] ELSE EmptyMap
        cnt == IF next \in DOMAIN row THEN row[next] ELSE 0
        row2 == [t \in DOMAIN row \cup {next} |-> IF t = next THEN cnt + 1 ELSE row[t]]
    IN [s \in DOMAIN trans \cup {state} |-> IF s = state THEN row2 ELSE trans[s]]

\* The body of train's loop from 0-based index i on: state is
\* full_sequence[i : i+order-1], next_token is full_sequence[i+order-1].
RECURSIVE TrainFrom(_, _, _, _)
TrainFrom(trans, full, order, i) ==
    IF i >= TrainSteps(full, order) THEN trans
    ELSE TrainFrom(Incr(trans, SubSeq(full, i + 1, i + order - 1), full[i + order]),
                   full, order, i + 1)

\* MarkovModel.train
Train(trans, tokens, order) ==
    IF tokens = <<>> THEN trans
    ELSE TrainFrom(trans, FullSequence(tokens, order), order, 0)

\* The (state, next_token, count) items of a transitions map.
Items(trans) == UNION {{<<s, t>> : t \in DOMAIN trans[s]} : s \in DOMAIN trans}

\* Rows that carry the order of the request path's model, whatever the order
\* of the model they come from.
BatchOfSyncOrder(order, trans) ==
    LET s == SeqOf(Items(trans))
    IN [i \in 1..Len(s) |-> <<SyncOrder, s[i][1], s[i][2], trans[s[i][1]][s[i][2]]>>]

\* The list the callers build: (order, state, next_token, count) per item.
BatchOf(order, trans) ==
    LET s == SeqOf(Items(trans))
    IN [i \in 1..Len(s) |-> <<order, s[i][1], s[i][2], trans[s[i][1]][s[i][2]]>>]

\* MarkovModel.get_distribution: token -> <<count, total>>, {} when the state
\* is unknown or its counts sum to 0.
GetDistribution(trans, state) ==
    IF state \notin DOMAIN trans THEN EmptyMap
    ELSE IF SumMap(trans[state]) = 0 THEN EmptyMap
    ELSE [t \in DOMAIN trans[state] |-> <<trans[state][t], SumMap(trans[state])>>]

\* ----------------------------------------------------------------- sampling
\* A distribution (a dict of token -> probability) is the sequence of its
\* (token, weight) items in the dict's iteration order; the probability of a
\* token is its weight over the sum of the weights.  Dividing every value by
\* the total changes no weight; it raises ZeroDivisionError on a total of 0.
\* An Optional[int] argument: None, or <<n>> for the number n.
None == <<>>

\* What a call that raises yields: as a token, and as a distribution.
Failure == "error"
FailedDist == << <<Failure, 0>> >>

DistTotal(dist) == SumSeq([i \in 1..Len(dist) |-> dist[i][2]])

DistTokens(dist) == {dist[i][1] : i \in 1..Len(dist)}

\* {token: prob / total for token, prob in distribution.items()}
Renormalize(dist) ==
    IF dist = <<>> THEN <<>>
    ELSE IF DistTotal(dist) = 0 THEN FailedDist
    ELSE dist

\* get_distribution on the items of transitions[state], in the dict's order:
\* {} when the counts sum to 0, else count / total per token.
DistributionOf(counts) == IF DistTotal(counts) = 0 THEN <<>> ELSE counts

\* 1000 * (1 + 10 / (1 + exp(-0.2 * (current_length - 0.8 * recommended)))),
\* rounded, for 10 * current_length - 8 * recommended = -40, -38, .. 42.
BoostTable ==
    << 4100, 4186, 4274, 4363, 4452, 4543, 4635, 4729, 4823, 4917, 5013, 5110, 5207, 5305,
       5403, 5502, 5601, 5700, 5800, 5900, 6000, 6100, 6200, 6300, 6399, 6498, 6597, 6695,
       6793, 6890, 6987, 7083, 7177, 7271, 7365, 7457, 7548, 7637, 7726, 7814, 7900, 7985 >>

\* The exponent -0.2 * (current_length - 0.8 * recommended) is -d / 50 for
\* d = 10 * current_length - 8 * recommended.  In the floats of the program:
\* math.exp raises OverflowError for d <= -ExpOverflowAt; 1.0 + 10.0 * sigmoid
\* is 1.0 exactly for -ExpOverflowAt < d <= -BoostOneAt, and 11.0 exactly for
\* d >= BoostElevenAt.
ExpOverflowAt == 35490
BoostOneAt == 1952
BoostElevenAt == 1842

Distance(current_length, recommended_length) == 10 * current_length - 8 * recommended_length

\* math.exp(...) raises OverflowError("math range error").
ExpOverflows(current_length, recommended_length) ==
    Distance(current_length, recommended_length) <= 0 - ExpOverflowAt

\* boost_factor, in thousandths, where math.exp does not raise.  Between
\* the float's exact 1.0 and the table, and between the table and the exact
\* 11.0, the factor is given by its bounds 1001 and 10999 (no input of the
\* model falls there).
BoostFactor(current_length, recommended_length) ==
    LET d == Distance(current_length, recommended_length)
    IN IF d <= 0 - BoostOneAt THEN 1000
       ELSE IF d < 0 - 40 THEN 1001
       ELSE IF d > 42 THEN (IF d >= BoostElevenAt THEN 11000 ELSE 10999)
       ELSE BoostTable[((d + 40) \div 2) + 1]

\* MarkovModel._apply_length_bias
ApplyLengthBias(dist, current_length, recommended_length) ==
    IF END \notin DistTokens(dist) \/ recommended_length <= 0 THEN dist
    ELSE IF ExpOverflows(current_length, recommended_length) THEN FailedDist
    ELSE LET b == BoostFactor(current_length, recommended_length)
             new == [i \in 1..Len(dist) |->
                        <<dist[i][1], IF dist[i][1] = END THEN dist[i][2] * b
                                      ELSE dist[i][2] * 1000>>]
         IN new

\* sorted(items, key=prob, reverse=True): stable, equal items keep their order.
RECURSIVE InsertDesc(_, _)
InsertDesc(s, x) ==
    IF s = <<>> THEN <<x>>
    ELSE IF Head(s)[2] >= x[2] THEN <<Head(s)>> \o InsertDesc(Tail(s), x)
    ELSE <<x>> \o s

RECURSIVE SortedDesc(_)
SortedDesc(dist) ==
    IF dist = <<>> THEN <<>>
    ELSE InsertDesc(SortedDesc(SubSeq(dist, 1, Len(dist) - 1)), dist[Len(dist)])

\* s[:k] of a Python list.
Slice(s, k) ==
    IF k >= 0 THEN SubSeq(s, 1, IF k < Len(s) THEN k ELSE Len(s))
    ELSE SubSeq(s, 1, IF Len(s) + k > 0 THEN Len(s) + k ELSE 0)

\* A top_k that cuts the dict's items without sorting them.
TopKUnsorted(dist, top_k) == Renormalize(Slice(dist, top_k))

\* _sample_token, lines 197-205: the top_k items by probability, renormalized.
TopK(dist, top_k) == Renormalize(Slice(SortedDesc(dist), top_k))

\* max(distribution.items(), key=prob)[0]: the first item of maximal weight.
ArgMax(dist) ==
    IF dist = <<>> THEN Failure
    ELSE dist[CHOOSE i \in 1..Len(dist) :
                 /\ \A j \in 1..Len(dist) : dist[j][2] <= dist[i][2]
                 /\ \A j \in 1..(i - 1) : dist[j][2] < dist[i][2]][1]

RECURSIVE Pow(_, _)
Pow(b, e) == IF e = 0 THEN 1 ELSE b * Pow(b, e - 1)

\* A temperature is <<numerator, denominator>>; the positive ones modelled
\* are 1 over an integer, so that prob ** (1.0 / temperature) is a power.
AtMostZero(temperature) == temperature[1] <= 0
IsOne(temperature) == temperature[1] = temperature[2]

\* _sample_token, lines 212-224: prob ** (1 / temperature) for every item of
\* positive probability, renormalized when the adjusted total is positive.
ApplyTemperature(dist, temperature) ==
    LET e == temperature[2] \div temperature[1]
        pos == SelectSeq(dist, LAMBDA it : it[2] > 0)
        adjusted == [i \in 1..Len(pos) |-> <<pos[i][1], Pow(pos[i][2], e)>>]
    IN IF DistTotal(adjusted) > 0 THEN adjusted ELSE dist

\* The distribution _sample_token passes to random.choices (or to max).
SamplingDistribution(dist, temperature, top_k) ==
    LET d1 == IF top_k # None THEN TopK(dist, top_k[1]) ELSE dist
    IN IF d1 = FailedDist \/ AtMostZero(temperature) \/ IsOne(temperature) THEN d1
       ELSE ApplyTemperature(d1, temperature)

\* random.choices(tokens, weights)[0] with random() = u / RandomGrain: the
\* first item whose cumulative weight exceeds random() * total.
Choices(dist, u) ==
    IF dist = <<>> \/ DistTotal(dist) <= 0 THEN Failure
    ELSE dist[CHOOSE i \in 1..Len(dist) :
                 /\ DistTotal(SubSeq(dist, 1, i)) * RandomGrain > u * DistTotal(dist)
                 /\ \A j \in 1..(i - 1) :
                       DistTotal(SubSeq(dist, 1, j)) * RandomGrain <= u * DistTotal(dist)][1]

\* _sample_token with max() where temperature <= 0 left out: every call
\* draws from the random source.
SampleTokenAlwaysDraws(dist, temperature, top_k, u) ==
    IF dist = <<>> THEN END
    ELSE LET d == SamplingDistribution(dist, temperature, top_k)
         IN IF d = FailedDist THEN Failure ELSE Choices(d, u)

\* MarkovModel._sample_token, with u the state of the random source.
SampleToken(dist, temperature, top_k, u) ==
    IF dist = <<>> THEN END
    ELSE LET d == SamplingDistribution(dist, temperature, top_k)
         IN IF d = FailedDist THEN Failure
            ELSE IF AtMostZero(temperature) THEN ArgMax(d)
            ELSE Choices(d, u)

\* ---------------------------------------------------------------- Database
\* The count of a ledger row, 0 when the row is absent.
Led(ledger, k) == IF k \in DOMAIN ledger THEN ledger[k] ELSE 0

\* UPDATE transitions SET count = ? in place of count = count + ?.
MergeRowOverwrite(ledger, row) ==
    LET k == <<row[1], row[2], row[3]>>
    IN [x \in DOMAIN ledger \cup {k} |-> IF x = k THEN row[4] ELSE ledger[x]]

\* UPDATE transitions SET count = count + ? WHERE key; INSERT when no row matched.
MergeRow(ledger, row) ==
    LET k == <<row[1], row[2], row[3]>>
    IN IF k \in DOMAIN ledger
       THEN [ledger EXCEPT ![k] = @ + row[4]]
       ELSE [x \in DOMAIN ledger \cup {k} |-> IF x = k THEN row[4] ELSE ledger[x]]

RECURSIVE MergeRows(_, _)
MergeRows(ledger, rows) ==
    IF rows = <<>> THEN ledger ELSE MergeRows(MergeRow(ledger, Head(rows)), Tail(rows))

\* json.dumps(dist).encode(): the key/value pairs of the dict, in order.
JsonDumps(dist) ==
    LET ks == SeqOf(DOMAIN dist) IN [i \in 1..Len(ks) |-> <<ks[i], dist[ks[i]]>>]

\* json.loads(blob.decode()): the dict of the pairs, a later pair replacing
\* an earlier one of the same key.
RECURSIVE JsonLoads(_)
JsonLoads(blob) ==
    IF blob = <<>> THEN EmptyMap
    ELSE LET d == JsonLoads(SubSeq(blob, 1, Len(blob) - 1))
             p == blob[Len(blob)]
         IN [t \in DOMAIN d \cup {p[1]} |-> IF t = p[1] THEN p[2] ELSE d[t]]

\* SELECT order_n, state_text, next_token, SUM(count) ... GROUP BY the key.
GroupRows(ledger) ==
    LET ks == SeqOf(DOMAIN ledger)
    IN [i \in 1..Len(ks) |-> <<ks[i][1], ks[i][2], ks[i][3], ledger[ks[i]]>>]

\* CompactRow that writes the distribution of an existing state back with
\* the total_count it read, not adding the group's count to it.
CompactRowKeepTotal(states, row) ==
    LET sk == <<row[1], row[2]>>
        dist0 == IF sk \in DOMAIN states THEN JsonLoads(states[sk].dist_blob) ELSE EmptyMap
        dist == [t \in DOMAIN dist0 \cup {row[3]} |->
                    IF t = row[3]
                    THEN (IF row[3] \in DOMAIN dist0 THEN dist0[row[3]] ELSE 0) + row[4]
                    ELSE dist0[t]]
        new_total == IF sk \in DOMAIN states THEN states[sk].total_count ELSE row[4]
        new == [dist_blob |-> JsonDumps(dist), total_count |-> new_total]
    IN [x \in DOMAIN states \cup {sk} |-> IF x = sk THEN new ELSE states[x]]

\* CompactRow with the group's count replacing the cached count of the token
\* instead of being added to it.
CompactRowOverwrite(states, row) ==
    LET sk == <<row[1], row[2]>>
        dist0 == IF sk \in DOMAIN states THEN JsonLoads(states[sk].dist_blob) ELSE EmptyMap
        dist == [t \in DOMAIN dist0 \cup {row[3]} |-> IF t = row[3] THEN row[4] ELSE dist0[t]]
        new_total == IF sk \in DOMAIN states THEN states[sk].total_count + row[4] ELSE row[4]
        new == [dist_blob |-> JsonDumps(dist), total_count |-> new_total]
    IN [x \in DOMAIN states \cup {sk} |-> IF x = sk THEN new ELSE states[x]]

\* One iteration of compact's loop: read the states row of (order, state),
\* add the group's count to it (or create it), INSERT OR REPLACE it.
CompactRow(states, row) ==
    LET sk == <<row[1], row[2]>>
        next == row[3]
        total == row[4]
        dist0 == IF sk \in DOMAIN states THEN JsonLoads(states[sk].dist_blob) ELSE EmptyMap
        dist == [t \in DOMAIN dist0 \cup {next} |->
                    IF t = next
                    THEN (IF sk \in DOMAIN states
                          THEN (IF next \in DOMAIN dist0 THEN dist0[next] ELSE 0) + total
                          ELSE total)
                    ELSE dist0[t]]
        new_total == IF sk \in DOMAIN states THEN states[sk].total_count + total ELSE total
        new == [dist_blob |-> JsonDumps(dist), total_count |-> new_total]
    IN [x \in DOMAIN states \cup {sk} |-> IF x = sk THEN new ELSE states[x]]

\* The count the compacted cache holds for a key.
Cached(states, k) ==
    LET sk == <<k[1], k[2]>>
    IN IF sk \notin DOMAIN states THEN 0
       ELSE LET d == JsonLoads(states[sk].dist_blob)
            IN IF k[3] \in DOMAIN d THEN d[k[3]] ELSE 0

\* lastrowid of an INSERT into messages: INTEGER PRIMARY KEY gives max(id)+1.
NextId(msgs) ==
    IF DOMAIN msgs = {} THEN 1
    ELSE (CHOOSE i \in DOMAIN msgs : \A j \in DOMAIN msgs : j <= i) + 1

\* The INSERT INTO messages of add_message: content and user_id of the new row.
InsertMessage(d, user_id, text) ==
    LET id == NextId(d.msgs)
    IN [d EXCEPT
          !.msgs = [i \in DOMAIN d.msgs \cup {id} |-> IF i = id THEN text ELSE d.msgs[i]],
          !.users = [i \in DOMAIN d.users \cup {id} |-> IF i = id THEN user_id ELSE d.users[i]]]

\* The plain INSERT INTO message_processing of add_message raises
\* IntegrityError when a row of the new id and a pending order exists
\* (PRIMARY KEY (message_id, order_n)).
InsertConflicts(d, pending) == \E o \in pending : <<NextId(d.msgs), o>> \in DOMAIN d.cursor

\* Database.add_message: the message row and, for each pending order, an
\* unprocessed message_processing row (a plain INSERT).
AddMessageOf(d, user_id, text, pending) ==
    LET id == NextId(d.msgs)
        new == InsertMessage(d, user_id, text)
    IN [new EXCEPT
          !.cursor = [x \in DOMAIN d.cursor \cup {<<id, o>> : o \in pending} |->
                         IF x \in DOMAIN d.cursor THEN d.cursor[x] ELSE 0]]

\* The user_id the server stores its messages under (generator.py:53, 110).
ApiUser == "api"

AddMessageTo(d, text, pending) == AddMessageOf(d, ApiUser, text, pending)

\* A mark_message_processed that writes no row.
MarkNothingIn(d, id, o) == d

\* Database.mark_message_processed: INSERT OR REPLACE ... processed = 1.
MarkProcessedIn(d, id, o) ==
    [d EXCEPT !.cursor = [x \in DOMAIN d.cursor \cup {<<id, o>>} |->
                             IF x = <<id, o>> THEN 1 ELSE d.cursor[x]]]

\* The join written without "AND mp.order_n = ?": a message counts as
\* unprocessed while any order's row of it is unprocessed.
UnprocessedAnyOrder(d, id, o) ==
    \/ \A x \in DOMAIN d.cursor : x[1] # id
    \/ \E x \in DOMAIN d.cursor : x[1] = id /\ d.cursor[x] = 0

\* An inner join in place of the LEFT JOIN: only a message that has a
\* message_processing row of the order can be selected.
UnprocessedInnerJoin(d, id, o) == <<id, o>> \in DOMAIN d.cursor /\ d.cursor[<<id, o>>] = 0

\* The query without its WHERE clause: every message is selected.
UnprocessedNoWhere(d, id, o) == TRUE

\* The WHERE clause of get_unprocessed_messages after the LEFT JOIN.
Unprocessed(d, id, o) == <<id, o>> \notin DOMAIN d.cursor \/ d.cursor[<<id, o>>] = 0

RECURSIVE SortedIds(_)
SortedIds(S) ==
    IF S = {} THEN <<>>
    ELSE LET m == CHOOSE i \in S : \A j \in S : i <= j IN <<m>> \o SortedIds(S \ {m})

\* The query with ORDER BY m.id DESC: the newest unprocessed messages first.
GetUnprocessedMessagesNewestFirst(d, o, limit) ==
    LET asc == SortedIds({i \in DOMAIN d.msgs : Unprocessed(d, i, o)})
        all == [i \in 1..Len(asc) |-> asc[Len(asc) + 1 - i]]
    IN IF limit # 0 /\ Len(all) > limit THEN SubSeq(all, 1, limit) ELSE all

\* Database.get_unprocessed_messages(order_n, limit): ids in ORDER BY m.id,
\* cut to limit when limit is truthy.
GetUnprocessedMessages(d, o, limit) ==
    LET all == SortedIds({i \in DOMAIN d.msgs : Unprocessed(d, i, o)})
    IN IF limit # 0 /\ Len(all) > limit THEN SubSeq(all, 1, limit) ELSE all

\* ------------------------------------------------------------ TextProcessor
Text(toks, sp) == [toks |-> toks, sp |-> sp]

\* TextProcessor.tokenize: the tokens word_pattern finds.
Tokenize(text) == text.toks

\* TextProcessor.is_short
IsShort(text) == Len(Tokenize(text)) < MinMessageLength

\* TextProcessor.should_train (the texts modelled hold no code markers).
ShouldTrain(seenSet, text) == ~IsShort(text) /\ text \notin seenSet

\* seen_messages after should_train.
SeenAfter(seenSet, text) == IF ShouldTrain(seenSet, text) THEN seenSet \cup {text} ELSE seenSet

\* TextProcessor.preprocess: the tokens, or <<>> for None (callers test truth).
\* normalize rewrites URLs, e-mails, mentions and phone numbers, of which the
\* texts modelled hold none.
Preprocess(seenSet, text) == IF ShouldTrain(seenSet, text) THEN Tokenize(text) ELSE <<>>

\* ------------------------------------------------------------------- state
VARIABLES
    db,           \* the committed tables: ledger, states, msgs, cursor
    merged,       \* per ledger key, the sum of the deltas of the merges that returned
    intx,         \* per connection: a transaction is open (conn.in_transaction)
    lock,         \* the connection holding SQLite's write lock, or NoConn
    pend,         \* per connection: the tables as its open write transaction has them
    pc,           \* per connection: the Database call in progress and its position
    last,         \* per connection: the call that returned last and its outcome
    nops,         \* the number of Database calls started
    order,        \* the order of the synchronous model
    transitions,  \* MarkovModel.transitions of the synchronous model
    seen,         \* seen_messages of the synchronous path's TextProcessor
    hist,         \* the training cycles run: tokens, map before and after, ledger after
    wq,           \* worker: the orders run_once has still to process
    wcur,         \* worker: the order of the process_batch in progress, 0 when none
    wmsgs,        \* worker: the messages process_batch selected and has still to handle
    wstep,        \* worker: the position in the loop body, "train" or "mark"
    wtrans,       \* worker: per order, transitions of self.models[order]
    wseen,        \* worker: seen_messages of its TextProcessor
    flushed,      \* per (message, order): the batches the worker committed for it
    marked,       \* the (message, order) pairs a worker's mark_message_processed committed
    restarts,     \* per worker instance started after the first: marked at its start
    other,        \* the worker instance not running right now, NoWorker when there is one
    gen           \* the _sample_token or generate call under way, run twice side by side

storeVars == <<db, merged>>
connVars == <<intx, lock, pend, pc, last, nops>>
syncVars == <<order, transitions, seen, hist, wq, wcur, wmsgs, wstep, wtrans, wseen, flushed,
              marked, restarts, other, gen>>
workerVars == <<wq, wcur, wmsgs, wstep, wtrans, wseen, flushed, marked, restarts, other, gen>>
vars == <<db, merged, intx, lock, pend, pc, last, nops, order, transitions, seen, hist,
          wq, wcur, wmsgs, wstep, wtrans, wseen, flushed, marked, restarts, other, gen>>

\* The orders of the background worker (--orders, default 3,4).
WorkerOrders == {3, 4}

\* The processes holding a Database of their own on the same file: the API
\* server's request path and the background worker.
Conns == {"req", "wrk"}
NoConn == "none"
Idle == [op |-> "idle"]
NoWorker == [op |-> "none"]

EmptyDb ==
    [ledger |-> EmptyMap, states |-> EmptyMap, msgs |-> EmptyMap, users |-> EmptyMap,
     cursor |-> EmptyMap]

\* The orders a model is configured with (MARKOV_ORDER, --orders).
Orders == {2, 3}

Vocabulary == {"the", "cat", "sat"}

\* The texts a request or a message carries.
Texts ==
    { Text(<<"the", "cat", "sat">>, 0), Text(<<"the", "cat", "sat">>, 1),
      Text(<<"the", "the", "the">>, 0), Text(<<"cat", "sat", "the", "cat">>, 0),
      Text(<<"the", "cat">>, 0), Text(<<>>, 0) }

\* merged after a batch returned: every delta of the batch added to its key.
RECURSIVE Credit(_, _)
Credit(m, rows) ==
    IF rows = <<>> THEN m
    ELSE Credit(MergeRow(m, Head(rows)), Tail(rows))

Init ==
    /\ db = EmptyDb
    /\ merged = EmptyMap
    /\ intx = [c \in Conns |-> FALSE]
    /\ lock = NoConn
    /\ pend = [c \in Conns |-> EmptyDb]
    /\ pc = [c \in Conns |-> Idle]
    /\ last = [c \in Conns |-> Idle]
    /\ nops = 0
    /\ order \in Orders
    /\ transitions = EmptyMap
    /\ seen = {}
    /\ hist = <<>>
    /\ wq = <<>>
    /\ wcur = 0
    /\ wmsgs = <<>>
    /\ wstep = "train"
    /\ wtrans = [o \in WorkerOrders |-> EmptyMap]
    /\ wseen = {}
    /\ flushed = EmptyMap
    /\ marked = {}
    /\ restarts = <<>>
    /\ other = NoWorker
    /\ gen = Idle

\* ------------------------------------------------- the synchronous path
\* Generator.generate_from_prompt, lines 48-65 (generate_from_messages runs
\* the same steps per user message): preprocess, add_message, train, then
\* add_transitions_batch of every item of model.transitions.
GenerateFromPrompt(text) ==
    LET tokens == Preprocess(seen, text)
        after == Train(transitions, tokens, order)
        rows == BatchOf(order, after)
        d1 == AddMessageTo(db, text, {})
        d2 == [d1 EXCEPT !.ledger = MergeRows(d1.ledger, rows)]
    IN /\ Len(hist) < MaxCycles
       /\ seen' = SeenAfter(seen, text)
       /\ IF tokens # <<>>
          THEN /\ transitions' = after
               /\ db' = d2
               /\ merged' = Credit(merged, rows)
               /\ hist' = Append(hist, [toks |-> tokens, before |-> transitions,
                                        after |-> after, ledger |-> d2.ledger])
          ELSE /\ hist' = Append(hist, [toks |-> <<>>, before |-> transitions,
                                        after |-> transitions, ledger |-> db.ledger])
               /\ UNCHANGED <<transitions, db, merged>>
       /\ UNCHANGED <<order, connVars, workerVars>>

\* train_from_text of test_markov.py: the same cycle, persisting with one
\* add_transition call (and commit) per item of model.transitions.
TrainFromText(text) ==
    LET tokens == Preprocess(seen, text)
        after == Train(transitions, tokens, order)
        rows == BatchOf(order, after)
        d1 == AddMessageTo(db, text, {})
        d2 == [d1 EXCEPT !.ledger = MergeRows(d1.ledger, rows)]
    IN /\ Len(hist) < MaxCycles
       /\ tokens # <<>>
       /\ seen' = SeenAfter(seen, text)
       /\ transitions' = after
       /\ db' = d2
       /\ merged' = Credit(merged, rows)
       /\ hist' = Append(hist, [toks |-> tokens, before |-> transitions,
                                after |-> after, ledger |-> d2.ledger])
       /\ UNCHANGED <<order, connVars, workerVars>>

NextTrain ==
    \/ \E text \in Texts : GenerateFromPrompt(text)
    \/ \E text \in Texts : TrainFromText(text)

SpecTrain == Init /\ [][NextTrain]_vars

\* ------------------------------------------- Database calls, per statement
\* sqlite3 keeps the changes of an open write transaction private to its
\* connection until commit; every other connection reads the committed tables.
View(c) == IF lock = c THEN pend[c] ELSE db

\* A statement that writes needs SQLite's write lock, which one connection
\* holds at a time from its first write to its commit or rollback; without it
\* the statement raises OperationalError (database is locked).
CanWrite(c) == lock \in {NoConn, c}

\* The call of connection c returns (or raises) with record r.
Return(c, r) ==
    /\ pc' = [pc EXCEPT ![c] = Idle]
    /\ last' = [last EXCEPT ![c] = r]

\* A write statement of c leaves tables d in its open transaction.
Written(c, d) ==
    /\ lock' = c
    /\ intx' = [intx EXCEPT ![c] = TRUE]
    /\ pend' = [pend EXCEPT ![c] = d]
    /\ db' = db

\* conn.commit() of c with tables d in its transaction.
Commit(c, d) ==
    /\ db' = d
    /\ lock' = NoConn
    /\ intx' = [intx EXCEPT ![c] = FALSE]
    /\ pend' = [pend EXCEPT ![c] = EmptyDb]

\* An except clause that re-raises without rolling back.
NoRollback(c) == UNCHANGED <<db, lock, intx, pend>>

\* conn.rollback() of c.
Rollback(c) ==
    /\ db' = db
    /\ lock' = IF lock = c THEN NoConn ELSE lock
    /\ intx' = [intx EXCEPT ![c] = FALSE]
    /\ pend' = [pend EXCEPT ![c] = EmptyDb]

Starts(c) == pc[c] = Idle /\ nops < MaxOps /\ nops' = nops + 1

\* A commit inside the loop, after every row.
CommitEveryRow(rows, i) == TRUE

\* add_transitions_batch: self.conn.commit() follows the loop over the rows.
CommitPoint(rows, i) == i = Len(rows)

\* add_transitions_batch up to BEGIN TRANSACTION; an empty list returns at once.
CallBatch(c, rows) ==
    /\ Starts(c)
    /\ ~intx[c]
    /\ IF rows = <<>>
       THEN /\ last' = [last EXCEPT ![c] = [op |-> "batch", ok |-> TRUE, pre |-> db, rows |-> rows]]
            /\ UNCHANGED <<pc, intx>>
       ELSE /\ pc' = [pc EXCEPT ![c] = [op |-> "batch", rows |-> rows, i |-> 0, pre |-> db]]
            /\ intx' = [intx EXCEPT ![c] = TRUE]
            /\ UNCHANGED last
    /\ UNCHANGED <<db, merged, lock, pend, syncVars>>

\* BEGIN TRANSACTION inside an open transaction raises; the except clause
\* rolls back and re-raises.
CallBatchNested(c, rows) ==
    /\ Starts(c)
    /\ intx[c]
    /\ rows # <<>>
    /\ Rollback(c)
    /\ last' = [last EXCEPT ![c] = [op |-> "batch", ok |-> FALSE, pre |-> db, rows |-> rows,
                                    at |-> 0]]
    /\ UNCHANGED <<pc, merged, syncVars>>

\* The UPDATE-or-INSERT of the next row of the batch, and the commit and
\* return after the last row.
BatchRow(c) ==
    /\ pc[c].op = "batch"
    /\ CanWrite(c)
    /\ LET rows == pc[c].rows
           i == pc[c].i + 1
           base == View(c)
           new == [base EXCEPT !.ledger = MergeRow(base.ledger, rows[i])]
       IN /\ IF CommitPoint(rows, i) THEN Commit(c, new) ELSE Written(c, new)
          /\ IF i = Len(rows)
             THEN /\ Return(c, [op |-> "batch", ok |-> TRUE, pre |-> pc[c].pre, rows |-> rows])
                  /\ merged' = Credit(merged, rows)
             ELSE /\ pc' = [pc EXCEPT ![c].i = i]
                  /\ UNCHANGED <<last, merged>>
    /\ UNCHANGED <<nops, syncVars>>

\* A statement of the batch raises because another connection holds the
\* write lock: rollback, re-raise.
BatchRowBusy(c) ==
    /\ pc[c].op = "batch"
    /\ ~CanWrite(c)
    /\ Rollback(c)
    /\ Return(c, [op |-> "batch", ok |-> FALSE, pre |-> pc[c].pre, rows |-> pc[c].rows,
                  at |-> pc[c].i])
    /\ UNCHANGED <<merged, nops, syncVars>>

\* A statement of the batch raises on a storage error: rollback, re-raise.
BatchRowFail(c) ==
    /\ pc[c].op = "batch"
    /\ CanWrite(c)
    /\ Rollback(c)
    /\ Return(c, [op |-> "batch", ok |-> FALSE, pre |-> pc[c].pre, rows |-> pc[c].rows,
                  at |-> pc[c].i])
    /\ UNCHANGED <<merged, nops, syncVars>>

\* Database.add_transition: the UPDATE-or-INSERT and the commit, which also
\* commits whatever the connection's open transaction holds.
AddTransition(c, row) ==
    /\ Starts(c)
    /\ CanWrite(c)
    /\ Commit(c, [View(c) EXCEPT !.ledger = MergeRow(View(c).ledger, row)])
    /\ last' = [last EXCEPT ![c] = [op |-> "add_transition", ok |-> TRUE, pre |-> db, rows |-> <<row>>]]
    /\ merged' = Credit(merged, <<row>>)
    /\ UNCHANGED <<pc, syncVars>>

\* add_transition raising on the write lock: the implicit BEGIN stays open.
AddTransitionBusy(c, row) ==
    /\ Starts(c)
    /\ ~CanWrite(c)
    /\ intx' = [intx EXCEPT ![c] = TRUE]
    /\ last' = [last EXCEPT ![c] = [op |-> "add_transition", ok |-> FALSE, pre |-> db, rows |-> <<row>>]]
    /\ UNCHANGED <<db, merged, lock, pend, pc, syncVars>>

\* Database.add_message on connection c, returning the new id.
AddMessageBy(c, user_id, text, pending) ==
    /\ Starts(c)
    /\ CanWrite(c)
    /\ Cardinality(DOMAIN View(c).msgs) < MaxMsgs
    /\ ~InsertConflicts(View(c), pending)
    /\ Commit(c, AddMessageOf(View(c), user_id, text, pending))
    /\ last' = [last EXCEPT ![c] = [op |-> "add_message", ok |-> TRUE, pre |-> db,
                                    ret |-> NextId(View(c).msgs)]]
    /\ UNCHANGED <<pc, merged, syncVars>>

\* add_message raising IntegrityError at an INSERT INTO message_processing:
\* nothing catches it, so the INSERT INTO messages stays in the connection's
\* open transaction, neither committed nor rolled back.
AddMessageRaises(c, user_id, text, pending) ==
    /\ Starts(c)
    /\ CanWrite(c)
    /\ Cardinality(DOMAIN View(c).msgs) < MaxMsgs
    /\ InsertConflicts(View(c), pending)
    /\ Written(c, InsertMessage(View(c), user_id, text))
    /\ last' = [last EXCEPT ![c] = [op |-> "add_message", ok |-> FALSE, pre |-> db,
                                    ret |-> NextId(View(c).msgs)]]
    /\ UNCHANGED <<pc, merged, syncVars>>

\* add_message as the server calls it.
AddMessage(c, text, pending) == AddMessageBy(c, ApiUser, text, pending)

\* Database.delete_user_data: DELETE FROM messages WHERE user_id = ?, commit,
\* return the number of rows deleted.  No other table is touched, and the
\* connection never turns foreign-key enforcement on.
DeleteUserData(c, user_id) ==
    /\ Starts(c)
    /\ CanWrite(c)
    /\ LET d == View(c)
           keep == {i \in DOMAIN d.msgs : d.users[i] # user_id}
       IN /\ Commit(c, [d EXCEPT !.msgs = [i \in keep |-> d.msgs[i]],
                                  !.users = [i \in keep |-> d.users[i]]])
          /\ last' = [last EXCEPT ![c] = [op |-> "delete", ok |-> TRUE, pre |-> db,
                                          ret |-> Cardinality(DOMAIN d.msgs \ keep)]]
    /\ UNCHANGED <<pc, merged, syncVars>>

\* Database.mark_message_processed on connection c.
MarkMessageProcessed(c, id, o) ==
    /\ Starts(c)
    /\ CanWrite(c)
    /\ Commit(c, MarkProcessedIn(View(c), id, o))
    /\ last' = [last EXCEPT ![c] = [op |-> "mark", ok |-> TRUE, pre |-> db]]
    /\ UNCHANGED <<pc, merged, syncVars>>

\* Database.get_all_transitions: the rows of the ledger as the connection
\* sees it (the load that follows does not depend on their order).
GetAllTransitionsOf(c) == GroupRows(View(c).ledger)

GetAllTransitions(c) ==
    /\ Starts(c)
    /\ last' = [last EXCEPT ![c] = [op |-> "read", ok |-> TRUE, pre |-> db,
                                    rows |-> GetAllTransitionsOf(c), total |-> merged]]
    /\ UNCHANGED <<db, merged, intx, lock, pend, pc, syncVars>>

\* compact up to its first SELECT, which runs outside any write transaction
\* of its own: the grouped ledger rows are fetched into a list.
CallCompact(c) ==
    /\ Starts(c)
    /\ pc' = [pc EXCEPT ![c] = [op |-> "compact", rows |-> GroupRows(View(c).ledger),
                                i |-> 0, pre |-> db]]
    /\ UNCHANGED <<db, merged, intx, lock, pend, last, syncVars>>

\* One iteration of compact's loop: SELECT the states row, INSERT OR REPLACE.
CompactMerge(c) ==
    /\ pc[c].op = "compact"
    /\ pc[c].i < Len(pc[c].rows)
    /\ CanWrite(c)
    /\ Written(c, [View(c) EXCEPT !.states = CompactRow(View(c).states, pc[c].rows[pc[c].i + 1])])
    /\ pc' = [pc EXCEPT ![c].i = @ + 1]
    /\ UNCHANGED <<merged, last, nops, syncVars>>

\* compact returning the number of rows of the states table, not the number
\* of groups this call merged.
CompactDeleteCountStates(c) ==
    /\ pc[c].op = "compact"
    /\ pc[c].i = Len(pc[c].rows)
    /\ CanWrite(c)
    /\ Commit(c, [View(c) EXCEPT !.ledger = EmptyMap])
    /\ Return(c, [op |-> "compact", ok |-> TRUE, pre |-> pc[c].pre,
                  ret |-> Cardinality(DOMAIN View(c).states)])
    /\ UNCHANGED <<merged, nops, syncVars>>

\* DELETE FROM transitions, commit, return the number of groups.
CompactDelete(c) ==
    /\ pc[c].op = "compact"
    /\ pc[c].i = Len(pc[c].rows)
    /\ CanWrite(c)
    /\ Commit(c, [View(c) EXCEPT !.ledger = EmptyMap])
    /\ Return(c, [op |-> "compact", ok |-> TRUE, pre |-> pc[c].pre, ret |-> pc[c].i])
    /\ UNCHANGED <<merged, nops, syncVars>>

\* A write statement of compact raises on the write lock.  compact has no
\* except clause: the exception leaves it with the implicit BEGIN open.
CompactBusy(c) ==
    /\ pc[c].op = "compact"
    /\ ~CanWrite(c)
    /\ intx' = [intx EXCEPT ![c] = TRUE]
    /\ Return(c, [op |-> "compact", ok |-> FALSE, pre |-> pc[c].pre, ret |-> 0])
    /\ UNCHANGED <<db, merged, lock, pend, nops, syncVars>>

\* compact raises after merging at least one group and before its DELETE:
\* nothing rolls back, the transaction with the merged groups stays open.
CompactFail(c) ==
    /\ pc[c].op = "compact"
    /\ pc[c].i >= 1
    /\ lock = c
    /\ Return(c, [op |-> "compact", ok |-> FALSE, pre |-> pc[c].pre, ret |-> 0])
    /\ UNCHANGED <<db, merged, intx, lock, pend, nops, syncVars>>

\* load_from_database without "if order_n == self.order": every row is loaded.
RECURSIVE LoadFromDatabaseAllOrders(_, _, _)
LoadFromDatabaseAllOrders(trans, rows, ord) ==
    IF rows = <<>> THEN trans
    ELSE LET r == Head(rows)
             row == IF r[2] \in DOMAIN trans THEN trans[r[2]] ELSE EmptyMap
             row2 == [t \in DOMAIN row \cup {r[3]} |-> IF t = r[3] THEN r[4] ELSE row[t]]
             t2 == [x \in DOMAIN trans \cup {r[2]} |-> IF x = r[2] THEN row2 ELSE trans[x]]
         IN LoadFromDatabaseAllOrders(t2, Tail(rows), ord)

\* load_from_database's return value: transitions_loaded, one per row of the
\* model's order.
TransitionsLoaded(rows, ord) == Len(SelectSeq(rows, LAMBDA r : r[1] = ord))

\* MarkovModel.load_from_database: every row of the model's order sets
\* transitions[state][next_token] = count.
RECURSIVE LoadFromDatabase(_, _, _)
LoadFromDatabase(trans, rows, ord) ==
    IF rows = <<>> THEN trans
    ELSE LET r == Head(rows)
             row == IF r[2] \in DOMAIN trans THEN trans[r[2]] ELSE EmptyMap
             row2 == [t \in DOMAIN row \cup {r[3]} |-> IF t = r[3] THEN r[4] ELSE row[t]]
             t2 == IF r[1] = ord
                   THEN [x \in DOMAIN trans \cup {r[2]} |-> IF x = r[2] THEN row2 ELSE trans[x]]
                   ELSE trans
         IN LoadFromDatabase(t2, Tail(rows), ord)

\* Cold start (main.py): a fresh MarkovModel hydrated with load_from_database.
ColdStart(c) ==
    /\ Starts(c)
    /\ transitions' = LoadFromDatabase(EmptyMap, GetAllTransitionsOf(c), order)
    /\ last' = [last EXCEPT ![c] = [op |-> "load", ok |-> TRUE, pre |-> View(c),
                                    ret |-> TransitionsLoaded(GetAllTransitionsOf(c), order)]]
    /\ UNCHANGED <<db, merged, intx, lock, pend, pc, order, seen, hist, workerVars>>

\* ------------------------------------------------------ the store's inputs
Row(k, n) == <<k[1], k[2], k[3], n>>

K1 == <<2, <<"the">>, "cat">>
K2 == <<2, <<"the">>, "sat">>
K3 == <<3, <<"the", "cat">>, "sat">>
StoreKeys == {K1, K2, K3}

\* The lists passed to add_transitions_batch.
Batches == { <<Row(K1, 1)>>, <<Row(K1, 1), Row(K2, 2)>>, <<Row(K2, 1), Row(K3, 1)>> }

InitStore == Init /\ order = SyncOrder

\* One connection, every call running to its end, nothing failing.
NextSeq ==
    \/ \E rows \in Batches \cup {<<>>} : CallBatch("req", rows)
    \/ BatchRow("req")
    \/ \E k \in StoreKeys : AddTransition("req", Row(k, 1))
    \/ CallCompact("req")
    \/ CompactMerge("req")
    \/ CompactDelete("req")
    \/ GetAllTransitions("req")
    \/ ColdStart("req")

SpecSeq == InitStore /\ [][NextSeq]_vars

\* One connection; a statement of a batch or of compact may fail.
NextFail ==
    \/ \E rows \in Batches : CallBatch("req", rows)
    \/ \E rows \in Batches : CallBatchNested("req", rows)
    \/ BatchRow("req")
    \/ BatchRowFail("req")
    \/ \E k \in StoreKeys : AddTransition("req", Row(k, 1))
    \/ \E t \in Texts : AddMessage("req", t, {})
    \/ \E id \in DOMAIN View("req").msgs, o \in Orders : MarkMessageProcessed("req", id, o)
    \/ CallCompact("req")
    \/ CompactMerge("req")
    \/ CompactDelete("req")
    \/ CompactFail("req")

SpecFail == InitStore /\ [][NextFail]_vars

\* Two connections writing to and reading from the ledger.
NextWriters ==
    \E c \in Conns :
        \/ \E rows \in Batches : CallBatch(c, rows)
        \/ \E rows \in Batches : CallBatchNested(c, rows)
        \/ BatchRow(c)
        \/ BatchRowBusy(c)
        \/ \E k \in StoreKeys : AddTransition(c, Row(k, 1))
        \/ \E k \in StoreKeys : AddTransitionBusy(c, Row(k, 1))
        \/ GetAllTransitions(c)

SpecWriters == InitStore /\ [][NextWriters]_vars

\* Two connections, one compacting while the other ingests.
NextConc ==
    \E c \in Conns :
        \/ \E rows \in Batches : CallBatch(c, rows)
        \/ \E rows \in Batches : CallBatchNested(c, rows)
        \/ BatchRow(c)
        \/ BatchRowBusy(c)
        \/ CallCompact(c)
        \/ CompactMerge(c)
        \/ CompactDelete(c)
        \/ CompactBusy(c)

SpecConc == InitStore /\ [][NextConc]_vars

\* ------------------------------------------------------- BackgroundWorker
\* The worker's Database calls each run to their commit in one step, once the
\* write lock is free (sqlite3 waits for it); its connection is "wrk".
WorkerIdleVars == <<order, transitions, seen, hist, pc, last, nops, restarts, other, gen>>

\* run_once: for order in self.orders (sorted) ...
RunOnce ==
    /\ wq = <<>>
    /\ wcur = 0
    /\ wq' = SortedIds(WorkerOrders)
    /\ UNCHANGED <<db, merged, intx, lock, pend, wcur, wmsgs, wstep, wtrans, wseen, flushed,
                   marked, WorkerIdleVars>>

\* process_batch, lines 81-88: select the unprocessed messages of the order;
\* return 0 when there are none.
ProcessBatch ==
    /\ wq # <<>>
    /\ wcur = 0
    /\ LET o == Head(wq)
           ids == GetUnprocessedMessages(View("wrk"), o, BatchSize)
       IN IF ids = <<>>
          THEN /\ wq' = Tail(wq)
               /\ UNCHANGED <<wcur, wmsgs>>
          ELSE /\ wcur' = o
               /\ wmsgs' = [i \in 1..Len(ids) |-> [id |-> ids[i], content |-> View("wrk").msgs[ids[i]]]]
               /\ wq' = wq
    /\ wstep' = "train"
    /\ UNCHANGED <<db, merged, intx, lock, pend, wtrans, wseen, flushed, marked, WorkerIdleVars>>

\* The loop moves to the next message; after the last one process_batch returns.
NextMessage ==
    /\ wmsgs' = Tail(wmsgs)
    /\ wstep' = "train"
    /\ IF Tail(wmsgs) = <<>>
       THEN wcur' = 0 /\ wq' = Tail(wq)
       ELSE UNCHANGED <<wcur, wq>>

Bump(f, x) == [y \in DOMAIN f \cup {x} |-> IF y = x THEN (IF x \in DOMAIN f THEN f[x] ELSE 0) + 1 ELSE f[y]]

\* A scratch map that keeps its counts after the flush.
NotCleared(trans) == trans

\* process_batch, line 115: model.transitions.clear()
Cleared(trans) == EmptyMap

\* process_batch, lines 91-115: preprocess the message; with no tokens mark it
\* processed and continue; else train the order's model, send every item of
\* its transitions with add_transitions_batch and clear the map.
WorkerTrain ==
    /\ wcur # 0
    /\ wstep = "train"
    /\ CanWrite("wrk")
    /\ \E m \in {Head(wmsgs)} :
       \E tokens \in {Preprocess(wseen, m.content)} :
       \E after \in {Train(wtrans[wcur], tokens, wcur)} :
       \E rows \in {BatchOf(wcur, after)} :
          /\ wseen' = SeenAfter(wseen, m.content)
          /\ IF tokens = <<>>
             THEN /\ Commit("wrk", MarkProcessedIn(View("wrk"), m.id, wcur))
                  /\ marked' = marked \cup {<<m.id, wcur>>}
                  /\ NextMessage
                  /\ UNCHANGED <<merged, wtrans, flushed>>
             ELSE /\ IF rows # <<>>
                     THEN /\ Commit("wrk", [View("wrk") EXCEPT !.ledger = MergeRows(@, rows)])
                          /\ merged' = Credit(merged, rows)
                          /\ wtrans' = [wtrans EXCEPT ![wcur] = Cleared(after)]
                          /\ flushed' = Bump(flushed, <<m.id, wcur>>)
                     ELSE /\ wtrans' = [wtrans EXCEPT ![wcur] = after]
                          /\ UNCHANGED <<db, merged, intx, lock, pend, flushed>>
                  /\ wstep' = "mark"
                  /\ UNCHANGED <<wmsgs, wcur, wq, marked>>
    /\ UNCHANGED WorkerIdleVars

\* process_batch, lines 117-119: mark the message processed for the order.
WorkerMark ==
    /\ wcur # 0
    /\ wstep = "mark"
    /\ CanWrite("wrk")
    /\ Commit("wrk", MarkProcessedIn(View("wrk"), Head(wmsgs).id, wcur))
    /\ marked' = marked \cup {<<Head(wmsgs).id, wcur>>}
    /\ NextMessage
    /\ UNCHANGED <<merged, wtrans, wseen, flushed, WorkerIdleVars>>

\* The texts the request path stores: add_message follows a preprocess that
\* returned tokens (generator.py:51-53).
StoredTexts == {t \in Texts : ~IsShort(t)}

\* The background worker, with the request path storing messages.
NextWorker ==
    \/ RunOnce
    \/ ProcessBatch
    \/ WorkerTrain
    \/ WorkerMark
    \/ \E t \in StoredTexts, pending \in {{}, WorkerOrders} : AddMessage("req", t, pending)

SpecWorker == InitStore /\ [][NextWorker]_vars

\* The next step of the worker's single thread (at most one is enabled).
WorkerStep == RunOnce \/ ProcessBatch \/ WorkerTrain \/ WorkerMark

\* run_forever: the loop calls run_once again and again, and each call runs
\* to its return; the server stores messages whenever requests come.
\* The text of the messages arriving while the worker runs: the first copy
\* yields tokens for the first order, every later preprocess of it yields none.
LiveTexts == {Text(<<"the", "cat", "sat">>, 0)}

NextWorkerLive ==
    \/ WorkerStep
    \/ \E t \in LiveTexts, pending \in {{}, WorkerOrders} : AddMessage("req", t, pending)

SpecWorkerLive == InitStore /\ [][NextWorkerLive]_vars /\ WF_vars(WorkerStep)

\* A schema set-up that drops and recreates the message_processing table.
InitSchemaRecreate(d) == [d EXCEPT !.cursor = EmptyMap]

\* Database._init_schema on an existing file: CREATE TABLE IF NOT EXISTS and
\* CREATE INDEX IF NOT EXISTS leave the tables as they are.
InitSchema(d) == d

\* BackgroundWorker.__init__ of a new process on the same database file: a
\* Database of its own (schema set-up, committed), a new TextProcessor (empty
\* seen_messages) and a new MarkovModel per order; nothing else is read.
WorkerInit ==
    /\ Len(restarts) < MaxRestarts
    /\ restarts' = Append(restarts, marked)
    /\ CanWrite("wrk")
    /\ Commit("wrk", InitSchema(db))
    /\ wq' = <<>>
    /\ wcur' = 0
    /\ wmsgs' = <<>>
    /\ wstep' = "train"
    /\ wtrans' = [o \in WorkerOrders |-> EmptyMap]
    /\ wseen' = {}
    /\ UNCHANGED <<merged, flushed, marked, order, transitions, seen, hist, pc, last, nops, gen>>

\* A new worker process started after the one before it has ended.
NewWorker == WorkerInit /\ UNCHANGED other

\* The worker process dies at any point of its loop (each of its Database
\* calls has committed or has not begun) and is started again.
Crash == NewWorker

\* The worker is stopped between two process_batch calls and started again.
Restart == wcur = 0 /\ NewWorker

\* The worker stopped and started again between batches, with messages arriving
\* (stored as the server stores them, without pending_orders).
NextRestart ==
    \/ WorkerStep
    \/ Restart
    \/ \E t \in LiveTexts : AddMessage("req", t, {})

SpecRestart == InitStore /\ [][NextRestart]_vars /\ WF_vars(WorkerStep)

\* The background worker with crashes, and the request path storing messages.
NextCrash ==
    \/ RunOnce
    \/ ProcessBatch
    \/ WorkerTrain
    \/ WorkerMark
    \/ Crash
    \/ \E t \in StoredTexts, pending \in {{}, WorkerOrders} : AddMessage("req", t, pending)

SpecCrash == InitStore /\ [][NextCrash]_vars

\* The worker with crashes while the server stores messages of two contents
\* (without pending_orders, as generator.py stores them).
RetrainTexts == {Text(<<"the", "cat", "sat">>, 0), Text(<<"cat", "sat", "the", "cat">>, 0)}

NextRetrain ==
    \/ WorkerStep
    \/ Crash
    \/ \E t \in RetrainTexts : AddMessage("req", t, {})

SpecRetrain == InitStore /\ [][NextRetrain]_vars

\* What a worker process holds: its place in run_once and process_batch, its
\* models and the seen_messages of its TextProcessor.
Instance ==
    [q |-> wq, cur |-> wcur, msgs |-> wmsgs, step |-> wstep, trans |-> wtrans, seen |-> wseen]

\* A second worker process is started on the same database file while the
\* first is still running: nothing in __init__ or main looks for another
\* instance.  The process that was running keeps what it holds.
SecondWorker ==
    /\ other = NoWorker
    /\ other' = Instance
    /\ WorkerInit

\* The two processes interleave at their Database calls: the other instance
\* takes the next steps.
Switch ==
    /\ other # NoWorker
    /\ other' = Instance
    /\ wq' = other.q
    /\ wcur' = other.cur
    /\ wmsgs' = other.msgs
    /\ wstep' = other.step
    /\ wtrans' = other.trans
    /\ wseen' = other.seen
    /\ UNCHANGED <<db, merged, intx, lock, pend, pc, last, nops, order, transitions, seen, hist,
                   flushed, marked, restarts, gen>>

\* Two worker instances on one database, with the server storing messages.
NextTwoWorkers ==
    \/ WorkerStep
    \/ SecondWorker
    \/ Switch
    \/ \E t \in LiveTexts : AddMessage("req", t, {})

SpecTwoWorkers == InitStore /\ [][NextTwoWorkers]_vars

\* The SELECT of get_processing_stats: per order_n that has rows in
\* message_processing, COUNT(*) and the sums of the two CASE expressions.
ProcessingStats(d) ==
    [o \in {x[2] : x \in DOMAIN d.cursor} |->
        [total |-> Cardinality({x \in DOMAIN d.cursor : x[2] = o}),
         processed |-> Cardinality({x \in DOMAIN d.cursor : x[2] = o /\ d.cursor[x] = 1}),
         pending |-> Cardinality({x \in DOMAIN d.cursor : x[2] = o /\ d.cursor[x] = 0})]]

\* Database.get_processing_stats on connection c.
GetProcessingStats(c) ==
    /\ Starts(c)
    /\ last' = [last EXCEPT ![c] = [op |-> "stats", ok |-> TRUE, pre |-> View(c),
                                    stats |-> ProcessingStats(View(c))]]
    /\ UNCHANGED <<db, merged, intx, lock, pend, pc, syncVars>>

\* The user_ids messages are stored under: the server's, and an importer's
\* (import_training_data.py passes the user_id of the imported record).
Users == {ApiUser, "u1"}

\* The worker running while a second connection stores messages, with and
\* without pending_orders, deletes a user's messages and reads the
\* processing statistics.
NextDelete ==
    \/ WorkerStep
    \/ \E user_id \in Users, t \in LiveTexts, pending \in {{}, WorkerOrders} :
          AddMessageBy("req", user_id, t, pending)
    \/ \E user_id \in Users, t \in LiveTexts, pending \in {{}, WorkerOrders} :
          AddMessageRaises("req", user_id, t, pending)
    \/ \E user_id \in Users : DeleteUserData("req", user_id)
    \/ GetProcessingStats("req")

SpecDelete == InitStore /\ [][NextDelete]_vars

\* compact run from its SELECT to its commit with nothing in between.
RECURSIVE CompactRows(_, _)
CompactRows(states, rows) ==
    IF rows = <<>> THEN states ELSE CompactRows(CompactRow(states, Head(rows)), Tail(rows))

CompactAll(d) == [d EXCEPT !.states = CompactRows(d.states, GroupRows(d.ledger)),
                           !.ledger = EmptyMap]

Compact(c) ==
    /\ Starts(c)
    /\ CanWrite(c)
    /\ Commit(c, CompactAll(View(c)))
    /\ UNCHANGED <<merged, pc, last, syncVars>>

\* add_transitions_batch run from BEGIN to its commit with nothing in between.
AddTransitionsBatch(c, rows) ==
    /\ Starts(c)
    /\ ~intx[c]
    /\ CanWrite(c)
    /\ Commit(c, [View(c) EXCEPT !.ledger = MergeRows(@, rows)])
    /\ merged' = Credit(merged, rows)
    /\ UNCHANGED <<pc, last, syncVars>>

\* The worker, with other callers of the Database on a second connection.
NextCursor ==
    \/ RunOnce
    \/ ProcessBatch
    \/ WorkerTrain
    \/ WorkerMark
    \/ \E pending \in {{}, WorkerOrders} : AddMessage("req", Text(<<"the", "cat", "sat">>, 0), pending)
    \/ \E id \in DOMAIN View("req").msgs, o \in WorkerOrders : MarkMessageProcessed("req", id, o)
    \/ \E k \in {K1, K3} : AddTransitionsBatch("req", <<Row(k, 1)>>)
    \/ Compact("req")

SpecCursor == InitStore /\ [][NextCursor]_vars

\* ------------------------------------------------------------- generation
GenIdleVars == <<db, merged, intx, lock, pend, pc, last, nops, order, transitions, seen, hist,
                 wq, wcur, wmsgs, wstep, wtrans, wseen, flushed, marked, restarts, other>>

\* The states of the random source: random() returns u / RandomGrain.
RandomStates == 0..(RandomGrain - 1)

GenTokens == {"a", "b", END}

\* The distributions _sample_token is called with: up to three distinct
\* tokens in any order, weights 0..MaxWeight, not all 0.
SampleDists ==
    {d \in UNION {[1..n -> GenTokens \X (0..MaxWeight)] : n \in 1..3} :
        /\ \A i, j \in 1..Len(d) : i # j => d[i][1] # d[j][1]
        /\ DistTotal(d) > 0}

\* temperature: negative, 0, 0.5 and 1.0.
Temperatures == {<<0 - 1, 1>>, <<0, 1>>, <<1, 2>>, <<1, 1>>}

\* The temperatures generate is called with: 0, 0.5 and 1.0.
GenTemperatures == {<<0, 1>>, <<1, 2>>, <<1, 1>>}

\* top_k: None (the default) or the number a request gives (options.get
\* passes it on unchecked, so 0 and negative numbers arrive as they are).
TopKs == {None, <<0 - 1>>, <<0>>, <<1>>, <<2>>}

\* recommended_tokens: None (the default) or a target length: short ones, and
\* two long ones (300 tokens, 5000 tokens).
Recommended == {None, <<1>>, <<5>>, <<300>>, <<5000>>}

\* MarkovModel._sample_token called on the same arguments in two runs, the
\* random source in state u1 in one and u2 in the other.
SampleTokenCall(dist, temperature, top_k) ==
    /\ gen = Idle
    /\ \E u1, u2 \in RandomStates :
          gen' = [op |-> "sample", dist |-> dist, temperature |-> temperature,
                  top_k |-> top_k, u |-> <<u1, u2>>,
                  out |-> <<SampleToken(dist, temperature, top_k, u1),
                            SampleToken(dist, temperature, top_k, u2)>>]
    /\ UNCHANGED GenIdleVars

\* Models of order 2 to generate from: per state the (token, count) items of
\* transitions[state] in the dict's order.
GenModels ==
    { (<<START>> :> << <<"a", 2>>, <<"b", 2>> >>)
        @@ (<<"a">> :> << <<"b", 1>>, <<END, 1>>, <<"a", 1>> >>)
        @@ (<<"b">> :> << <<"a", 4>>, <<END, 1>> >>),
      (<<START>> :> << <<"b", 1>>, <<"a", 3>> >>)
        @@ (<<"a">> :> << <<"a", 5>>, <<END, 1>>, <<"b", 0>> >>)
        @@ (<<"b">> :> << <<"a", 0>> >>) }

\* A loop without the test for END: END is a token like another.
NoEndToken(next_token) == FALSE

\* generate, line 95: if next_token == "<END>": break
IsEndToken(next_token) == next_token = END

\* A loop that makes one iteration more than range(max_tokens) has.
LoopEndsLate(generated, max_tokens) == generated = max_tokens + 1

\* generate, line 78: for token_idx in range(max_tokens) is exhausted once
\* max_tokens iterations have appended a token.
LoopEnds(generated, max_tokens) == generated = max_tokens

\* generate, lines 72-76: a call starts, in two runs on the same arguments.
GenerateCall(model, seed_state, max_tokens, temperature, top_k, recommended_tokens) ==
    /\ gen = Idle
    /\ gen' = [op |-> "generate", model |-> model, max_tokens |-> max_tokens,
               temperature |-> temperature, top_k |-> top_k,
               recommended_tokens |-> recommended_tokens,
               run |-> [r \in {1, 2} |->
                           [state |-> IF seed_state = <<>>
                                      THEN Repeat(START, SyncOrder - 1) ELSE seed_state,
                            out |-> <<>>, done |-> LoopEnds(0, max_tokens), raised |-> FALSE,
                            steps |-> <<>>]]]
    /\ UNCHANGED GenIdleVars

\* generate, lines 86-90: the length bias, when asked for and END is a key.
Biased(dist, generated, recommended_tokens) ==
    IF recommended_tokens # None /\ END \in DistTokens(dist)
    THEN ApplyLengthBias(dist, generated, recommended_tokens[1])
    ELSE dist

\* The length bias applied to what top-k and temperature left of the raw
\* distribution: the steps in the order 3, 4, 2.
StepDistributionBiasLast(dist, generated, temperature, top_k, recommended_tokens) ==
    Biased(SamplingDistribution(dist, temperature, top_k), generated, recommended_tokens)

\* generate, lines 86-93: the distribution an iteration samples from, the
\* length bias applied first and _sample_token's top_k and temperature after.
StepDistribution(dist, generated, temperature, top_k, recommended_tokens) ==
    SamplingDistribution(Biased(dist, generated, recommended_tokens), temperature, top_k)

\* One iteration of generate's loop in run r, the random source in state u;
\* the second run is made after the first has ended.
GenerateStep(r, u) ==
    /\ gen.op = "generate"
    /\ ~gen.run[r].done
    /\ r = 2 => gen.run[1].done
    /\ LET g == gen.run[r]
           dist == IF g.state \in DOMAIN gen.model
                   THEN DistributionOf(gen.model[g.state]) ELSE <<>>
           biased == Biased(dist, Len(g.out), gen.recommended_tokens)
           tok == SampleToken(biased, gen.temperature, gen.top_k, u)
           step == [raw |-> dist, generated |-> Len(g.out), u |-> u, biased |-> biased,
                    weights |-> StepDistribution(dist, Len(g.out), gen.temperature,
                                                 gen.top_k, gen.recommended_tokens),
                    tok |-> tok]
       IN gen' = [gen EXCEPT ![
            "run"][r] =
              IF dist = <<>> THEN [g EXCEPT !.done = TRUE]
              ELSE IF tok = Failure
                   THEN [g EXCEPT !.done = TRUE, !.raised = TRUE, !.steps = Append(@, step)]
              ELSE IF IsEndToken(tok)
                   THEN [g EXCEPT !.done = TRUE, !.steps = Append(@, step)]
              ELSE [g EXCEPT !.out = Append(@, tok),
                             !.state = Tail(g.state) \o <<tok>>,
                             !.steps = Append(@, step),
                             !.done = LoopEnds(Len(g.out) + 1, gen.max_tokens)]]
    /\ UNCHANGED GenIdleVars

\* _sample_token on its own, and generate step by step.
NextSampling ==
    \/ /\ gen = Idle
       /\ \E dist \in SampleDists, temperature \in Temperatures, top_k \in TopKs :
             SampleTokenCall(dist, temperature, top_k)
    \/ /\ gen = Idle
       /\ \E model \in GenModels, seed_state \in {<<>>, <<"b">>},
          max_tokens \in 1..MaxTokens, temperature \in GenTemperatures,
          top_k \in TopKs, recommended_tokens \in Recommended :
            GenerateCall(model, seed_state, max_tokens, temperature, top_k, recommended_tokens)
    \/ \E r \in {1, 2}, u \in RandomStates : GenerateStep(r, u)

SpecSampling == InitStore /\ [][NextSampling]_vars

\* ------------------------------------------------------------------ claims
\* The count of (state, next) in a transitions map, 0 when absent.
Cnt(trans, state, next) ==
    IF state \in DOMAIN trans /\ next \in DOMAIN trans[state] THEN trans[state][next] ELSE 0

\* The windows of length order of the padded sequence, the final one (whose
\* next token is END) included: 0-based start indices.
Windows(tokens, ord) == 0..(Len(FullSequence(tokens, ord)) - ord)

WindowState(tokens, ord, i) == SubSeq(FullSequence(tokens, ord), i + 1, i + ord - 1)

WindowNext(tokens, ord, i) == FullSequence(tokens, ord)[i + ord]

\* C1: on an empty store and a fresh model, two train-then-persist cycles on
\* the same token sequence leave every ledger count of that sequence at twice
\* its value after one cycle.
C1_TwiceDoubles ==
    (Len(hist) = 2 /\ hist[1].toks # <<>> /\ hist[1].toks = hist[2].toks)
        => \A k \in DOMAIN hist[1].ledger : Led(hist[2].ledger, k) = 2 * hist[1].ledger[k]

\* C9: train on a non-empty token list adds exactly 1 per window of length
\* order of the padded sequence to the count of the window's (state, next),
\* the final window into END included; for order 2 and [the, cat, sat] from
\* an empty map the result is START->the, the->cat, cat->sat, sat->END.
C9_TrainAllWindows ==
    \A n \in 1..Len(hist) :
        LET h == hist[n] IN
        h.toks # <<>> =>
            /\ \A i \in Windows(h.toks, order) :
                 LET st == WindowState(h.toks, order, i)
                     nx == WindowNext(h.toks, order, i)
                 IN Cnt(h.after, st, nx) - Cnt(h.before, st, nx)
                      = Cardinality({j \in Windows(h.toks, order) :
                                        /\ WindowState(h.toks, order, j) = st
                                        /\ WindowNext(h.toks, order, j) = nx})
            /\ (order = 2 /\ h.toks = <<"the", "cat", "sat">> /\ h.before = EmptyMap)
                 => /\ Items(h.after) = { <<(<<START>>), "the">>, <<(<<"the">>), "cat">>,
                                          <<(<<"cat">>), "sat">>, <<(<<"sat">>), END>> }
                    /\ \A p \in Items(h.after) : h.after[p[1]][p[2]] = 1

\* The keys the tables d or the record of merges know.
KeysOf(d) ==
    DOMAIN d.ledger \cup DOMAIN merged
      \cup UNION {{<<sk[1], sk[2], t>> : t \in DOMAIN JsonLoads(d.states[sk].dist_blob)} :
                     sk \in DOMAIN d.states}

\* Ledger count plus compacted count of a key in tables d.
StoreCount(d, k) == Led(d.ledger, k) + Cached(d.states, k)

\* C3: with calls following one another, for every key the ledger count plus
\* the count of that token in the compacted state equals the sum of the deltas
\* merged for the key, whatever the interleaving of add_transition,
\* add_transitions_batch and compact.
C3_Conservation == \A k \in KeysOf(db) : StoreCount(db, k) = Led(merged, k)

\* A key counted both in the ledger and in the cache after a compact that
\* returned and a later merge, the cache holding a second compaction's count.
C3_Witness ==
    \E k \in KeysOf(db) :
        /\ Led(db.ledger, k) > 0
        /\ Cached(db.states, k) >= 2
        /\ pc["req"] = Idle

\* The next-token counts the store holds for a state of an order: ledger rows
\* plus the compacted cache, summed by token.
StoreCounts(d, ord, state) ==
    LET ks == {k \in KeysOf(d) : k[1] = ord /\ k[2] = state /\ StoreCount(d, k) > 0}
    IN [t \in {k[3] : k \in ks} |-> StoreCount(d, <<ord, state, t>>)]

\* Two maps token -> <<count, total>> give every token the same probability.
SameDistribution(p, q) ==
    /\ DOMAIN p = DOMAIN q
    /\ \A t \in DOMAIN p : p[t][1] * q[t][2] = q[t][1] * p[t][2]

\* A map of counts normalised as get_distribution normalises.
Normalized(counts) == [t \in DOMAIN counts |-> <<counts[t], SumMap(counts)>>]

\* C10: the distribution the model serves for a state is the ledger counts
\* plus the compacted-cache counts of that state, normalised; so a model
\* hydrated by load_from_database serves the store's distribution for every
\* state, also after a compaction.
C10_DistributionOfStore ==
    \A c \in Conns :
        last[c].op = "load" =>
            \A k \in KeysOf(last[c].pre) :
                k[1] = order =>
                    SameDistribution(GetDistribution(transitions, k[2]),
                                     Normalized(StoreCounts(last[c].pre, order, k[2])))

\* C4: when compact runs while another connection commits
\* add_transitions_batch, then once both have finished the ledger plus the
\* cache of every key is the total merged for it: compact deletes nothing it
\* did not fold into the cache.
C4_ConcurrentCompactionConserves ==
    (\A c \in Conns : pc[c] = Idle /\ ~intx[c])
        => \A k \in KeysOf(db) : Led(merged, k) = StoreCount(db, k)

\* The sum of the deltas a list of rows holds for key k.
RECURSIVE DeltaOf(_, _)
DeltaOf(rows, k) ==
    IF rows = <<>> THEN 0
    ELSE (IF <<Head(rows)[1], Head(rows)[2], Head(rows)[3]>> = k THEN Head(rows)[4] ELSE 0)
            + DeltaOf(Tail(rows), k)

RowKeys(rows) == {<<rows[i][1], rows[i][2], rows[i][3]>> : i \in 1..Len(rows)}

\* C6: add_transitions_batch is atomic.  When a statement of the batch fails
\* the ledger, committed and as the caller's connection sees it, is as before
\* the call; when the call returns every triple is merged: a row inserted if
\* absent, its count raised by the delta otherwise.
C6_BatchAtomic ==
    \A c \in Conns :
        (pc[c] = Idle /\ last[c].op = "batch") =>
            IF last[c].ok
            THEN /\ DOMAIN db.ledger = DOMAIN last[c].pre.ledger \cup RowKeys(last[c].rows)
                 /\ \A k \in DOMAIN db.ledger :
                      db.ledger[k] = Led(last[c].pre.ledger, k) + DeltaOf(last[c].rows, k)
            ELSE /\ db.ledger = last[c].pre.ledger
                 /\ View(c).ledger = last[c].pre.ledger

\* A batch of two rows has failed after its first row was written, on a
\* ledger that held rows before.
C6_Witness ==
    /\ pc["req"] = Idle
    /\ last["req"].op = "batch"
    /\ ~last["req"].ok
    /\ last["req"].at >= 1
    /\ last["req"].pre.ledger # EmptyMap

\* C7: with two connections writing to the same store, the committed ledger
\* (what any other connection reads) holds whole batches only, and loses no
\* update: every key's count is the sum of the deltas of the calls that
\* returned, and a read returns exactly that.
C7_NoPartialBatchNoLostUpdate ==
    /\ \A k \in DOMAIN db.ledger \cup DOMAIN merged : Led(db.ledger, k) = Led(merged, k)
    /\ \A c \in Conns : last[c].op = "read" => last[c].rows = GroupRows(last[c].total)
    /\ (/\ last["req"].op = "batch" /\ last["req"].ok
        /\ last["wrk"].op = "batch" /\ last["wrk"].ok
        /\ last["req"].pre = last["wrk"].pre)
          => \A k \in DOMAIN db.ledger :
                db.ledger[k] = Led(last["req"].pre.ledger, k)
                                 + DeltaOf(last["req"].rows, k) + DeltaOf(last["wrk"].rows, k)

\* Two add_transitions_batch calls that began on the same committed tables,
\* one on each connection, have both returned and touched the same key.
C7_Witness ==
    /\ last["req"].op = "batch" /\ last["req"].ok
    /\ last["wrk"].op = "batch" /\ last["wrk"].ok
    /\ last["req"].pre = last["wrk"].pre
    /\ RowKeys(last["req"].rows) \cap RowKeys(last["wrk"].rows) # {}

\* C8: a compact that raises after merging some groups leaves nothing of its
\* merges in the committed tables, also after later committing calls on the
\* same connection: the cache of every key is what was merged for it less what
\* the ledger still holds, and a compact that returns leaves the ledger empty
\* and the cache holding all that was merged.
C8_FailedCompactNotPersistent ==
    /\ \A k \in KeysOf(db) : Cached(db.states, k) = Led(merged, k) - Led(db.ledger, k)
    /\ \A c \in Conns :
          (last[c].op = "compact" /\ last[c].ok /\ pc[c] = Idle)
              => \A k \in KeysOf(db) : Cached(db.states, k) = Led(merged, k)

\* C2: in the background processor running without crashes, every message
\* whose cursor row is processed for an order of the worker, and whose content
\* tokenizes to a non-empty sequence, has had its transitions merged into that
\* order's ledger exactly once.
C2_ExactlyOnce ==
    \A id \in DOMAIN db.msgs, o \in WorkerOrders :
        (/\ <<id, o>> \in DOMAIN db.cursor
         /\ db.cursor[<<id, o>>] = 1
         /\ Tokenize(db.msgs[id]) # <<>>)
            => Led(flushed, <<id, o>>) = 1

\* C5: a cursor row that is processed stays processed, and
\* get_unprocessed_messages of its order does not return its message, after
\* any step of add_message, mark_message_processed, add_transitions_batch,
\* compact or process_batch.
C5_CursorMonotone ==
    [][\A x \in DOMAIN db.cursor :
          db.cursor[x] = 1 =>
              /\ x \in DOMAIN db'.cursor
              /\ db'.cursor[x] = 1
              /\ x[1] \notin Range(GetUnprocessedMessages(db', x[2], 0))]_vars

\* A processed cursor row, with a later message still unprocessed for the
\* same order and a compaction done.
C5_Witness ==
    \E x \in DOMAIN db.cursor :
        /\ db.cursor[x] = 1
        /\ \E id \in Range(GetUnprocessedMessages(db, x[2], 0)) : id > x[1]
        /\ db.states # EmptyMap

\* C11: on the synchronous path, with no compaction and no other writer,
\* after any number of train-then-persist cycles from a model that started
\* equal to the ledger, the ledger count of every key of the model's order
\* equals the model's in-memory count of that key.
C11_LedgerEqualsModel ==
    /\ \A k \in DOMAIN db.ledger :
          k[1] = order => db.ledger[k] = Cnt(transitions, k[2], k[3])
    /\ \A p \in Items(transitions) :
          Led(db.ledger, <<order, p[1], p[2]>>) = transitions[p[1]][p[2]]

\* C12: with a worker that keeps running run_once, without crash or storage
\* failure, every message stored in the messages table is eventually marked
\* processed for every order of the worker, also while new messages arrive.
C12_EventuallyProcessed ==
    \A id \in 1..MaxMsgs, o \in WorkerOrders :
        (id \in DOMAIN db.msgs)
            ~> (<<id, o>> \in DOMAIN db.cursor /\ db.cursor[<<id, o>>] = 1)

\* A message processed for every order of the worker, a later message stored
\* and still unprocessed.
C12_Witness ==
    \E id \in DOMAIN db.msgs :
        /\ \A o \in WorkerOrders : <<id, o>> \in DOMAIN db.cursor /\ db.cursor[<<id, o>>] = 1
        /\ \E id2 \in DOMAIN db.msgs :
              id2 > id /\ \E o \in WorkerOrders : Unprocessed(db, id2, o)

\* The number of times the windows of the message's tokens count key k.
CountsOf(text, k) ==
    LET t == Train(EmptyMap, Tokenize(text), k[1]) IN Cnt(t, k[2], k[3])

\* C13: at every point of the background processor, crashes included, a
\* message that yields tokens and whose cursor row is processed for an order
\* has its counts in the ledger: every key of its windows holds at least the
\* message's count of it.
C13_NoLossUnderCrash ==
    \A id \in DOMAIN db.msgs, o \in WorkerOrders :
        (/\ <<id, o>> \in DOMAIN db.cursor
         /\ db.cursor[<<id, o>>] = 1
         /\ Preprocess({}, db.msgs[id]) # <<>>)
            => \A p \in Items(Train(EmptyMap, Tokenize(db.msgs[id]), o)) :
                  Led(db.ledger, <<o, p[1], p[2]>>)
                      >= CountsOf(db.msgs[id], <<o, p[1], p[2]>>)

\* The pairs marked processed when the running worker instance started.
MarkedAtStart == IF restarts = <<>> THEN {} ELSE restarts[Len(restarts)]

\* C14: a worker instance started on the same database after the previous one
\* was stopped between two process_batch calls never takes up a (message,
\* order) pair already marked processed, and every pair of a stored message
\* that is unprocessed when it runs is eventually marked processed.
C14_RestartSafe ==
    /\ [](wcur # 0 => \A i \in 1..Len(wmsgs) : <<wmsgs[i].id, wcur>> \notin marked)
    /\ \A id \in 1..MaxMsgs, o \in WorkerOrders :
          (restarts # <<>> /\ id \in DOMAIN db.msgs /\ Unprocessed(db, id, o))
              ~> (<<id, o>> \in DOMAIN db.cursor /\ db.cursor[<<id, o>>] = 1)

\* A restarted instance that found pairs marked by its predecessor and has
\* itself marked a pair of a message its predecessor had marked for another order.
C14_Witness ==
    /\ restarts # <<>>
    /\ \E x \in MarkedAtStart, y \in marked \ MarkedAtStart : x[1] = y[1] /\ x[2] # y[2]

\* C15: when the worker handles a message that yields no tokens, the step
\* marks it processed for the order in progress and leaves the transitions
\* ledger and the compacted states as they were; a pair the worker marked is
\* never selected again for its order.
C15_NoTokensMarked ==
    /\ [][(/\ wcur # 0
           /\ wstep = "train"
           /\ wmsgs # <<>>
           /\ Preprocess(wseen, Head(wmsgs).content) = <<>>
           /\ wmsgs' # wmsgs)
            => (/\ <<Head(wmsgs).id, wcur>> \in DOMAIN db'.cursor
                /\ db'.cursor[<<Head(wmsgs).id, wcur>>] = 1
                /\ db'.ledger = db.ledger
                /\ db'.states = db.states
                /\ Head(wmsgs).id \notin Range(GetUnprocessedMessages(db', wcur, 0)))]_vars
    /\ [](\A x \in marked : x[1] \notin Range(GetUnprocessedMessages(db, x[2], 0)))

\* A pair marked without a batch of its own, on a store whose ledger and
\* compacted states both hold rows.
C15_Witness ==
    /\ \E x \in marked : Led(flushed, x) = 0
    /\ db.ledger # EmptyMap
    /\ db.states # EmptyMap

\* C16: in every state of the store, committed or inside a connection's open
\* transaction, the total_count of every row of the states table equals the
\* sum of the values of its distribution.
C16_TotalIsSum ==
    \A d \in {db} \cup {View(c) : c \in Conns} :
        \A sk \in DOMAIN d.states :
            d.states[sk].total_count = SumMap(JsonLoads(d.states[sk].dist_blob))

\* A committed states row merged by more than one compaction: two tokens in
\* its distribution and a token counted more than once.
C16_Witness ==
    \E sk \in DOMAIN db.states :
        LET dist == JsonLoads(db.states[sk].dist_blob)
        IN /\ Cardinality(DOMAIN dist) >= 2
           /\ \E t \in DOMAIN dist : dist[t] >= 2
           /\ db.ledger = EmptyMap

\* C17: a compact() that was called with the ledger empty and has returned
\* left every states row as it was and the ledger empty, and returned 0; so a
\* second compact() right after a first leaves the cache of the first.
C17_CompactEmptyNoOp ==
    LET r == last["req"] IN
    (r.op = "compact" /\ r.ok /\ r.pre.ledger = EmptyMap)
        => /\ db.states = r.pre.states
           /\ db.ledger = EmptyMap
           /\ r.ret = 0

\* A compact() returned from an empty ledger and a cache that an earlier
\* compaction had filled.
C17_Witness ==
    LET r == last["req"] IN
    /\ r.op = "compact"
    /\ r.ok
    /\ r.pre.ledger = EmptyMap
    /\ r.pre.states # EmptyMap

\* ------------------------------------------------------- sampling claims
\* The positions of dist whose weight no other position exceeds.
Maximal(dist) == {i \in 1..Len(dist) : \A j \in 1..Len(dist) : dist[j][2] <= dist[i][2]}

\* Both runs of the generate call have returned or raised.
BothDone == gen.op = "generate" /\ gen.run[1].done /\ gen.run[2].done

\* C18: with temperature <= 0, _sample_token called on a non-empty
\* distribution yields the same outcome whatever the state of the random
\* source, and whenever top_k keeps an item (None, or at least 1) that
\* outcome is the first token of maximal probability in the distribution's
\* iteration order; two runs of generate on the same model, seed and
\* arguments with temperature <= 0 produce the same output.
C18_ZeroTemperatureDeterministic ==
    /\ (gen.op = "sample" /\ AtMostZero(gen.temperature))
          => /\ gen.out[1] = gen.out[2]
             /\ (gen.top_k = None \/ gen.top_k[1] >= 1)
                   => \E i \in Maximal(gen.dist) :
                         /\ gen.out[1] = gen.dist[i][1]
                         /\ \A j \in Maximal(gen.dist) : i <= j
    /\ (BothDone /\ AtMostZero(gen.temperature))
          => /\ gen.run[1].out = gen.run[2].out
             /\ gen.run[1].raised = gen.run[2].raised

\* Two runs of generate at temperature <= 0 that produced two tokens, chose
\* among tied tokens at some step, and had the random source in different
\* states at that step.
C18_Witness ==
    /\ BothDone
    /\ AtMostZero(gen.temperature)
    /\ Len(gen.run[1].out) = 2
    /\ \E n \in 1..Len(gen.run[1].steps) :
          /\ n <= Len(gen.run[2].steps)
          /\ gen.run[1].steps[n].u # gen.run[2].steps[n].u
          /\ Cardinality(Maximal(gen.run[1].steps[n].raw)) >= 2

\* C19: with top_k = 1 the token _sample_token returns is a token of maximal
\* probability of the distribution it was called with, at every temperature
\* (positive, zero or negative) and in every state of the random source.
C19_TopOneIsArgmax ==
    (gen.op = "sample" /\ gen.top_k = <<1>>)
        => \A r \in {1, 2} :
              \E i \in Maximal(gen.dist) : gen.out[r] = gen.dist[i][1]

\* A call with top_k = 1 and a positive temperature other than 1, on a
\* distribution whose first token is not maximal and has a positive
\* probability, the random source in two different states.
C19_Witness ==
    /\ gen.op = "sample"
    /\ gen.top_k = <<1>>
    /\ ~AtMostZero(gen.temperature)
    /\ ~IsOne(gen.temperature)
    /\ gen.dist[1][2] > 0
    /\ 1 \notin Maximal(gen.dist)
    /\ gen.u[1] # gen.u[2]

\* The steps of both runs of the generate call.
StepsTaken ==
    IF gen.op = "generate"
    THEN {gen.run[1].steps[n] : n \in 1..Len(gen.run[1].steps)}
           \cup {gen.run[2].steps[n] : n \in 1..Len(gen.run[2].steps)}
    ELSE {}

\* The weight of item i of a step's raw distribution once END is boosted:
\* thousandths of the raw weight when a length bias is asked for and END is
\* a key, the raw weight otherwise.
BoostedWeight(step, i) ==
    LET w == step.raw[i][2]
        rec == gen.recommended_tokens
    IN IF rec = None \/ rec[1] <= 0 \/ \A j \in 1..Len(step.raw) : step.raw[j][1] # END
       THEN w
       ELSE IF step.raw[i][1] = END THEN w * BoostFactor(step.generated, rec[1])
       ELSE w * 1000

\* The items of the raw distribution that top_k keeps when it ranks them by
\* boosted weight, the earlier of two equal items first (a negative top_k
\* drops that many items from the end of the ranking).
KeptByTopK(step) ==
    LET n == Len(step.raw)
        t == gen.top_k
        k == IF t = None \/ t[1] > n THEN n
             ELSE IF t[1] >= 0 THEN t[1]
             ELSE IF n + t[1] > 0 THEN n + t[1] ELSE 0
    IN CHOOSE S \in SUBSET (1..n) :
          /\ Cardinality(S) = k
          /\ \A i \in S, j \in (1..n) \ S :
                \/ BoostedWeight(step, i) > BoostedWeight(step, j)
                \/ BoostedWeight(step, i) = BoostedWeight(step, j) /\ i < j

\* The length bias of the step raises (math.exp overflows).
BiasRaises(step) ==
    /\ gen.recommended_tokens # None
    /\ gen.recommended_tokens[1] > 0
    /\ \E i \in 1..Len(step.raw) : step.raw[i][1] = END
    /\ ExpOverflows(step.generated, gen.recommended_tokens[1])

\* C20: in every iteration of generate whose length bias returns, the steps
\* apply in the order length bias, top-k, temperature: the tokens sampled from are those top_k keeps
\* when the items are ranked by the END-boosted weights of the raw
\* distribution, and the temperature power is taken of the boosted weight of
\* the kept tokens only (1 / temperature for a positive temperature, no
\* reweighting at temperature 1 or <= 0); the token sampled is one of them.
C20_BiasThenTopKThenTemperature ==
    \A step \in {st \in StepsTaken : ~BiasRaises(st)} :
        LET reweighted == ~AtMostZero(gen.temperature) /\ ~IsOne(gen.temperature)
            e == IF reweighted THEN gen.temperature[2] \div gen.temperature[1] ELSE 1
            kept == {i \in KeptByTopK(step) : reweighted => BoostedWeight(step, i) > 0}
        IN /\ DistTokens(step.weights) = {step.raw[i][1] : i \in kept}
           /\ \A n \in 1..Len(step.weights) :
                 \E i \in kept :
                    /\ step.raw[i][1] = step.weights[n][1]
                    /\ step.weights[n][2] = Pow(BoostedWeight(step, i), e)
           /\ step.tok # Failure => step.tok \in DistTokens(step.weights)

\* An iteration with a length bias, top_k = 1 and temperature 0.5 in which
\* END is the one token kept although another token has a larger raw weight.
C20_Witness ==
    /\ gen.op = "generate"
    /\ gen.top_k = <<1>>
    /\ gen.temperature = <<1, 2>>
    /\ \E step \in StepsTaken :
          /\ DistTokens(step.weights) = {END}
          /\ step.tok = END
          /\ \E i, j \in 1..Len(step.raw) :
                /\ step.raw[i][1] = END
                /\ step.raw[j][2] > step.raw[i][2]

\* ------------------------------------------------------ generation claims
\* get_distribution returns {} for the state: no iteration can sample.
NoDistribution(state) ==
    \/ state \notin DOMAIN gen.model
    \/ DistTotal(gen.model[state]) = 0

\* The last iteration of a run drew END.
DrewEnd(g) == g.steps # <<>> /\ g.steps[Len(g.steps)].tok = END

\* C21: a generate call makes at most max_tokens sampling steps and returns
\* at most max_tokens tokens; a call that has not ended has sampled fewer
\* than max_tokens times; a call that returned has fewer than max_tokens
\* tokens exactly when its last step drew END or its current state has no
\* distribution; and a seed state without a distribution returns the empty
\* output without raising.
C21_GenerateBounded ==
    gen.op = "generate" =>
        \A r \in {1, 2} :
            LET g == gen.run[r] IN
            /\ Len(g.steps) <= gen.max_tokens
            /\ Len(g.out) <= gen.max_tokens
            /\ ~g.done => Len(g.steps) < gen.max_tokens
            /\ (g.done /\ ~g.raised) =>
                  /\ (Len(g.out) < gen.max_tokens)
                        <=> (DrewEnd(g) \/ (Len(g.steps) < gen.max_tokens
                                              /\ NoDistribution(g.state)))
                  /\ Len(g.out) = Len(g.steps) - (IF DrewEnd(g) THEN 1 ELSE 0)
            /\ (g.done /\ g.steps = <<>>) => (g.out = <<>> /\ ~g.raised)

\* One run used all of its max_tokens = 2 steps; the other run of the same
\* call stopped before, on END.
C21_Witness ==
    /\ BothDone
    /\ gen.max_tokens = 2
    /\ Len(gen.run[1].out) = 2
    /\ DrewEnd(gen.run[2])
    /\ Len(gen.run[2].out) < 2

\* C22: the output of generate never contains END: it is, in order, the
\* tokens drawn by the steps that did not draw END or raise, END is drawn by
\* the last step of a run at most, and a run that drew END has ended.
C22_EndNeverEmitted ==
    gen.op = "generate" =>
        \A r \in {1, 2} :
            LET g == gen.run[r] IN
            /\ \A n \in 1..Len(g.out) : g.out[n] # END /\ g.out[n] = g.steps[n].tok
            /\ \A n \in 1..(Len(g.steps) - 1) : g.steps[n].tok # END
            /\ DrewEnd(g) => (g.done /\ Len(g.out) = Len(g.steps) - 1)

\* One run emitted a token and then drew END; the other run of the same
\* call drew END at its first step, with room left for more tokens.
C22_Witness ==
    /\ BothDone
    /\ gen.max_tokens >= 2
    /\ DrewEnd(gen.run[1])
    /\ Len(gen.run[1].out) = 1
    /\ DrewEnd(gen.run[2])
    /\ gen.run[2].out = <<>>

\* ------------------------------------------------------ seed selection
\* tokens[:n], the first n tokens in place of the last.
FirstTokens(tokens, n) == SubSeq(tokens, 1, IF n < Len(tokens) THEN n ELSE Len(tokens))

\* tokens[-n:] of a Python list: the last n tokens, all of them for n = 0.
LastTokens(tokens, n) ==
    IF n = 0 \/ n >= Len(tokens) THEN tokens
    ELSE SubSeq(tokens, Len(tokens) - n + 1, Len(tokens))

\* ' '.join(['<START>'] * (order - 1))
AllStart(o) == Repeat(START, o - 1)

\* _select_seed_state without the test for the state being in the model.
SelectSeedStateUnchecked(trans, o, context) ==
    LET tokens == Tokenize(context)
        seed_tokens == IF Len(tokens) >= o - 1 THEN LastTokens(tokens, o - 1) ELSE tokens
    IN IF tokens = <<>> THEN AllStart(o)
       ELSE Repeat(START, o - 1 - Len(seed_tokens)) \o seed_tokens

\* Generator._select_seed_state
SelectSeedState(trans, o, context) ==
    LET tokens == Tokenize(context)
        seed_tokens == IF Len(tokens) >= o - 1 THEN LastTokens(tokens, o - 1) ELSE tokens
        seed_state == Repeat(START, o - 1 - Len(seed_tokens)) \o seed_tokens
    IN IF tokens = <<>> THEN AllStart(o)
       ELSE IF seed_state \in DOMAIN trans THEN seed_state
       ELSE AllStart(o)

\* generate, lines 72-73: the state generation starts from.
StartState(seed_state, o) == IF seed_state = <<>> THEN AllStart(o) ELSE seed_state

\* The contexts a request carries: up to two tokens, "dog" in no training text.
ContextWords == {"the", "sat", "dog"}
Contexts == {Text(t, 0) : t \in {<<>>} \cup UNION {[1..n -> ContextWords] : n \in 1..2}}

\* generate_with_context, lines 134-135: the seed for a context, next to the
\* seed for the empty context, and the distributions generate starts from.
SelectSeedStateCall(context) ==
    /\ gen = Idle
    /\ LET seed == SelectSeedState(transitions, order, context)
           empty == SelectSeedState(transitions, order, Text(<<>>, 0))
       IN gen' = [op |-> "seed", context |-> Tokenize(context),
                  seed |-> seed, empty |-> empty,
                  dist |-> GetDistribution(transitions, StartState(seed, order)),
                  emptydist |-> GetDistribution(transitions, StartState(empty, order))]
    /\ UNCHANGED GenIdleVars

\* Requests that train the model, then one that selects a seed.
NextSeed ==
    \/ gen = Idle /\ \E text \in Texts : GenerateFromPrompt(text)
    \/ \E context \in Contexts : SelectSeedStateCall(context)

SpecSeed == Init /\ [][NextSeed]_vars

\* C23: for order 2, a context whose last token is not a state of the model
\* gets the seed the empty context gets, the all-START state, and generation
\* starts from the same distribution for both.
C23_SeedFallback ==
    (/\ gen.op = "seed"
     /\ order = 2
     /\ gen.context # <<>>
     /\ <<gen.context[Len(gen.context)]>> \notin DOMAIN transitions)
        => /\ gen.seed = <<START>>
           /\ gen.seed = gen.empty
           /\ gen.dist = gen.emptydist

\* A trained model of order 2, a context of two tokens whose first token is a
\* state of the model and whose last is not.
C23_Witness ==
    /\ gen.op = "seed"
    /\ order = 2
    /\ Len(gen.context) = 2
    /\ <<gen.context[1]>> \in DOMAIN transitions
    /\ <<gen.context[2]>> \notin DOMAIN transitions
    /\ gen.dist # EmptyMap

\* C29: for every context and every order >= 2 the seed _select_seed_state
\* returns has exactly order - 1 tokens and is either the all-START state or
\* a key of the model that consists of the last order - 1 tokens of the
\* context, START in every position the context is too short to fill.
C29_SeedIsKnownOrStart ==
    (gen.op = "seed" /\ order >= 2) =>
        LET n == order - 1
            c == gen.context
        IN /\ Len(gen.seed) = n
           /\ \/ gen.seed = [i \in 1..n |-> START]
              \/ /\ gen.seed \in DOMAIN transitions
                 /\ \A i \in 1..n :
                       gen.seed[i] = IF i <= n - Len(c) THEN START
                                     ELSE c[Len(c) - n + i]

\* A model of order 3 and a context of one token: the seed returned is START
\* and that token, a key of the model.
C29_Witness ==
    /\ gen.op = "seed"
    /\ order = 3
    /\ Len(gen.context) = 1
    /\ gen.seed = <<START, gen.context[1]>>
    /\ gen.seed \in DOMAIN transitions

\* ------------------------------------------------- background processor
\* The worker's step flushes the batch of the message at the head of wmsgs.
Flushes == wcur # 0 /\ wstep = "train" /\ wstep' = "mark"

\* The number of iterations of train's loop over the tokens, for order o,
\* whose state and next token are those of key k.
LoopCount(tokens, k) ==
    Cardinality({i \in 0..(Len(tokens) - 1) :
                    /\ WindowState(tokens, k[1], i) = k[2]
                    /\ WindowNext(tokens, k[1], i) = k[3]})

\* C24: the worker's scratch models are empty whenever a message's training
\* starts (and after every flush), and the batch flushed for a message adds
\* to each ledger row of the order exactly the number of windows of that
\* message that train's loop counts for it, and nothing to any other row.
C24_ScratchFresh ==
    /\ [](\A o \in WorkerOrders : wtrans[o] = EmptyMap)
    /\ [][Flushes =>
            \A k \in DOMAIN db.ledger \cup DOMAIN db'.ledger :
                Led(db'.ledger, k) - Led(db.ledger, k)
                    = IF k[1] = wcur
                      THEN LoopCount(Tokenize(Head(wmsgs).content), k)
                      ELSE 0]_vars

\* Two different messages flushed for the same order, the second on a ledger
\* that already held rows of the first.
C24_Witness ==
    \E x, y \in DOMAIN flushed :
        /\ x[1] # y[1]
        /\ x[2] = y[2]
        /\ db.msgs[x[1]] # db.msgs[y[1]]
        /\ wstep = "mark"

\* The flushes of the pairs of S beyond the first of each pair.
RECURSIVE ExtraFlushes(_)
ExtraFlushes(S) ==
    IF S = {} THEN 0
    ELSE LET x == CHOOSE y \in S : TRUE
         IN (IF flushed[x] > 1 THEN flushed[x] - 1 ELSE 0) + ExtraFlushes(S \ {x})

\* C25: with the worker crashing at any point, a (message, order) pair that
\* is marked processed is never flushed again; a pair flushed more than once
\* was not marked at some crash; and the flushes beyond the first of every
\* pair together number at most the crashes, so each crash retrains at most
\* the message in flight, within the bound of one batch per order.
C25_BoundedDuplication ==
    /\ [][Flushes => <<Head(wmsgs).id, wcur>> \notin marked]_vars
    /\ [](\A x \in DOMAIN flushed :
             flushed[x] > 1 => \E n \in 1..Len(restarts) : x \notin restarts[n])
    /\ [](ExtraFlushes(DOMAIN flushed) <= Len(restarts))
    /\ [](ExtraFlushes(DOMAIN flushed) <= Len(restarts) * BatchSize * Cardinality(WorkerOrders))

\* A crash came between the flush of a message and its mark: the message was
\* flushed a second time by the new process and is now marked.
C25_Witness ==
    /\ restarts # <<>>
    /\ \E x \in DOMAIN flushed :
          /\ flushed[x] = 2
          /\ x \in marked
          /\ x \notin restarts[1]

\* The tables d restricted to what belongs to no order o: the messages, the
\* compacted states, and the ledger and cursor rows of the other orders.
OutsideOrder(d, o) ==
    [msgs |-> d.msgs,
     users |-> d.users,
     states |-> d.states,
     ledger |-> [k \in {x \in DOMAIN d.ledger : x[1] # o} |-> d.ledger[k]],
     cursor |-> [x \in {y \in DOMAIN d.cursor : y[2] # o} |-> d.cursor[x]]]

\* C26: process_batch(k) selects at most batch_size messages, all of them
\* unprocessed for k, without writing; and each of its steps on a message
\* leaves the messages, the compacted states, and the ledger and cursor rows
\* of every order other than k as they were.
C26_ProcessBatchFrame ==
    [][/\ (wcur = 0 /\ wcur' # 0)
            => /\ Len(wmsgs') <= BatchSize
               /\ \A i \in 1..Len(wmsgs') : Unprocessed(db, wmsgs'[i].id, wcur')
               /\ db' = db
       /\ (wcur # 0 /\ <<wmsgs, wstep>>' # <<wmsgs, wstep>>)
            => OutsideOrder(db', wcur) = OutsideOrder(db, wcur)]_vars

\* The worker has flushed a message for order 3 on a store that holds a
\* ledger row of order 2, compacted states and a cursor row of order 4.
C26_Witness ==
    /\ wcur = 3
    /\ wstep = "mark"
    /\ \E k \in DOMAIN db.ledger : k[1] = 2
    /\ \E k \in DOMAIN db.ledger : k[1] = 3
    /\ db.states # EmptyMap
    /\ \E x \in DOMAIN db.cursor : x[2] = 4

\* ------------------------------------------------------------ ledger claims
\* Database.clear_training_data: the four DELETEs and the commit.
ClearTrainingData(c) ==
    /\ Starts(c)
    /\ CanWrite(c)
    /\ Commit(c, EmptyDb)
    /\ last' = [last EXCEPT ![c] = [op |-> "clear", ok |-> TRUE, pre |-> db]]
    /\ merged' = EmptyMap
    /\ UNCHANGED <<pc, syncVars>>

\* One connection: the writers of the ledger, statements that fail included,
\* compaction and clear_training_data.
NextLedger ==
    \/ \E rows \in Batches : CallBatch("req", rows)
    \/ \E rows \in Batches : CallBatchNested("req", rows)
    \/ BatchRow("req")
    \/ BatchRowFail("req")
    \/ \E k \in StoreKeys : AddTransition("req", Row(k, 1))
    \/ CallCompact("req")
    \/ CompactMerge("req")
    \/ CompactDelete("req")
    \/ CompactFail("req")
    \/ ClearTrainingData("req")

SpecLedger == InitStore /\ [][NextLedger]_vars

\* The call that connection c ended in this step, when it ended one.
Ended(c, ops) == last'[c] # last[c] /\ last'[c].op \in ops /\ last'[c].ok

C28_ColdStartHydration ==
    \A c \in Conns :
        last[c].op = "load" =>
            LET ledger == last[c].pre.ledger
                own == {k \in DOMAIN ledger : k[1] = order}
            IN /\ \A k \in own : Cnt(transitions, k[2], k[3]) = ledger[k]
               /\ \A p \in Items(transitions) : <<order, p[1], p[2]>> \in own
               /\ last[c].ret = Cardinality(own)

\* A model hydrated from a ledger that holds two rows of its order, one of
\* them with a count above 1, and a row of another order.
C28_Witness ==
    /\ last["req"].op = "load"
    /\ Cardinality({k \in DOMAIN last["req"].pre.ledger : k[1] = order}) = 2
    /\ \E k \in DOMAIN last["req"].pre.ledger : k[1] = order /\ last["req"].pre.ledger[k] > 1
    /\ \E k \in DOMAIN last["req"].pre.ledger : k[1] # order

\* The weight of token t in a distribution that holds it.
WeightOf(dist, t) == dist[CHOOSE i \in 1..Len(dist) : dist[i][1] = t][2]

\* A length bias is asked for in the step: a recommended length above 0 is
\* given and END is a key of the raw distribution.
BiasAsked(step) ==
    /\ gen.recommended_tokens # None
    /\ gen.recommended_tokens[1] > 0
    /\ END \in DistTokens(step.raw)

\* C30: in every iteration where a length bias is asked for, the biased
\* distribution has the tokens of the raw one, keeps the ratios between the
\* tokens other than END, and gives END, relative to every other token of
\* positive probability, its raw ratio times a factor above 1 and at most 11;
\* the factor of a later iteration of the run is not below that of an
\* earlier one; and where no bias is asked for the distribution sampled from
\* is the raw one.
C30_LengthBiasFavoursEnd ==
    gen.op = "generate" =>
        \A r \in {1, 2} :
            LET steps == gen.run[r].steps IN
            /\ \A n \in 1..Len(steps) :
                  LET raw == steps[n].raw
                      b == steps[n].biased
                      others == {t \in DistTokens(raw) \ {END} : WeightOf(raw, t) > 0}
                  IN IF ~BiasAsked(steps[n]) THEN b = raw
                     ELSE /\ DistTokens(b) = DistTokens(raw)
                          /\ \A s, t \in others :
                                WeightOf(b, s) * WeightOf(raw, t)
                                    = WeightOf(b, t) * WeightOf(raw, s)
                          /\ \A t \in others :
                                /\ WeightOf(b, END) * WeightOf(raw, t)
                                      > WeightOf(raw, END) * WeightOf(b, t)
                                /\ WeightOf(b, END) * WeightOf(raw, t)
                                      <= 11 * WeightOf(raw, END) * WeightOf(b, t)
            /\ \A m, n \in 1..Len(steps) :
                  (/\ m < n
                   /\ BiasAsked(steps[m]) /\ BiasAsked(steps[n])
                   /\ steps[m].raw = steps[n].raw
                   /\ DistTokens(steps[m].biased) = DistTokens(steps[m].raw)
                   /\ DistTokens(steps[n].biased) = DistTokens(steps[n].raw))
                      => \A t \in DistTokens(steps[m].raw) \ {END} :
                            WeightOf(steps[n].biased, END) * WeightOf(steps[m].biased, t)
                                >= WeightOf(steps[m].biased, END) * WeightOf(steps[n].biased, t)

\* ------------------------------------------------ sampling: error handling
\* C31: for every non-empty distribution, every temperature and every top_k
\* a caller can pass (0 and negative numbers included), _sample_token returns
\* a token that is a key of the distribution it was called with, and never
\* raises.
C31_SampleTokenTotal ==
    gen.op = "sample"
        => \A r \in {1, 2} : gen.out[r] \in DistTokens(gen.dist)

\* --------------------------------------------------- two worker instances
\* C32: two background worker instances running at the same time for the
\* same order on the same database never merge the transitions of one
\* message into that order's ledger twice: every (message, order) pair is
\* flushed by at most one add_transitions_batch.
C32_NoDoubleMergeByTwoWorkers ==
    \A x \in DOMAIN flushed : flushed[x] <= 1

\* ----------------------------------------------------- deletion and cursor
\* C34: in every reachable state every message_processing row refers to a
\* message that exists in the messages table, also after delete_user_data.
C34_CursorRefersToMessages ==
    \A x \in DOMAIN db.cursor : x[1] \in DOMAIN db.msgs

\* An add_message call of connection c returns or raises in this step.
AddMessageEnds(c) == nops' # nops /\ last'[c] # last[c] /\ last'[c].op = "add_message"

\* C33: a newly stored message is unprocessed for every order: add_message
\* does not raise, also not on an existing cursor row; for the id it returns,
\* get_unprocessed_messages(k) returns the message for every order k, also
\* when earlier messages were removed by delete_user_data before the insert;
\* and a stored message stops being returned for k only by the step that
\* marks it processed for k.
C33_NewMessageUnprocessed ==
    [][/\ \A c \in Conns :
             AddMessageEnds(c)
                => /\ last'[c].ok
                   /\ \A k \in WorkerOrders :
                         last'[c].ret \in Range(GetUnprocessedMessages(db', k, 0))
       /\ \A id \in DOMAIN db.msgs \cap DOMAIN db'.msgs, k \in WorkerOrders :
             (Unprocessed(db, id, k) /\ ~Unprocessed(db', id, k))
                => (wcur = k /\ wmsgs # <<>> /\ Head(wmsgs).id = id)]_vars

\* C35: what get_processing_stats returns agrees with the cursor query: for
\* every order k it reports, total = processed + pending, and pending is the
\* number of messages get_unprocessed_messages(k) returns without a limit
\* on the same tables, messages without a cursor row for k included.
C35_StatsAgreeWithCursor ==
    \A c \in Conns :
        last[c].op = "stats"
            => \A k \in DOMAIN last[c].stats :
                  LET st == last[c].stats[k]
                  IN /\ st.total = st.processed + st.pending
                     /\ st.pending = Len(GetUnprocessedMessages(last[c].pre, k, 0))

\* ------------------------------------------------------- processing order
\* C36: with a single background worker and no deletions, the messages
\* processed for an order are a prefix of the stored messages by id: whenever
\* message m is processed for order k, every stored message with a smaller id
\* is processed for k as well.
C36_ProcessedIsPrefix ==
    \A k \in WorkerOrders, m \in DOMAIN db.msgs :
        ~Unprocessed(db, m, k)
            => \A j \in DOMAIN db.msgs : j < m => ~Unprocessed(db, j, k)

\* Two messages are stored; the worker has marked message 1 for order 3 and
\* has selected message 2, still unprocessed, for order 3.
C36_Witness ==
    /\ DOMAIN db.msgs = {1, 2}
    /\ ~Unprocessed(db, 1, 3)
    /\ Unprocessed(db, 2, 3)
    /\ wcur = 3
    /\ Head(wmsgs).id = 2

====
